---- MODULE Spec2Model ----
(***************************************************************************)
(* Investment dashboard (script.js): the period windower                   *)
(* filterDataByPeriod and the cumulative change calculator                 *)
(* calculateCumulativeChange, applied to per-symbol price histories.       *)
(*                                                                         *)
(* JavaScript values are modelled as follows.                              *)
(*  - a number is a record [k, n, d]: k = "num" is the rational n/d in     *)
(*    lowest terms with d > 0, k = "inf" is +Infinity (n = 1) or -Infinity *)
(*    (n = -1), k = "NaN" is NaN.  Arithmetic is exact: the rounding of    *)
(*    IEEE doubles is not modelled, the special values are.                *)
(*  - an array-or-undefined value is a record [tag, elems]; a value        *)
(*    returned by a function also carries alias, TRUE when the returned    *)
(*    reference is the very object that was passed in.                     *)
(*  - a call on an array yields [ret, self/arg]: the returned value and    *)
(*    the contents of the receiver / argument after the call.              *)
(*  - a calendar date string "YYYY-MM-DD" is the record [y, m, d]; a       *)
(*    timestamp in epoch milliseconds is the record [sec, ms].             *)
(***************************************************************************)
EXTENDS Integers, Sequences, FiniteSets, TLC

\* The windower and the calculator applied to one history.
VARIABLES history, period, windowed, rewindowed, series, seriesOf, pc

\* One call of fetchData: which copy of the function runs, where it stands,
\* what the network delivered and how the promise it returned has settled.
VARIABLES gwVariant, gwPc, gwNet, gwResult

\* One page of the dashboard: the script it runs, the contents of its
\* elements, the invocations of its asynchronous routines, the market data
\* cache, the paths fetched so far, the theme of the body, localStorage, the
\* handlers registered, the callbacks that setTimeout has queued, the chart
\* that part_000 keeps in globalMarketsChart, and the chart elements that
\* were removed from the document holding a chart nobody destroyed.
VARIABLES page, dom, tasks, fullMarketData, fetchLog, darkMode, storage,
          handlers, timers, globalMarketsChart, orphanCharts

calcVars == <<history, period, windowed, rewindowed, series, seriesOf, pc>>

gwVars == <<gwVariant, gwPc, gwNet, gwResult>>

pageVars == <<page, dom, tasks, fullMarketData, fetchLog, darkMode, storage,
              handlers, timers, globalMarketsChart, orphanCharts>>

vars == <<calcVars, gwVars, pageVars>>

\* Longest history drawn as input; above 126 so that every period trims.
MaxLen == 128

-----------------------------------------------------------------------------
(* JavaScript numbers *)

Abs(x) == IF x < 0 THEN -x ELSE x

RECURSIVE Gcd(_, _)
Gcd(a, b) == IF b = 0 THEN a ELSE Gcd(b, a % b)

NaN == [k |-> "NaN", n |-> 0, d |-> 0]

Inf(sign) == [k |-> "inf", n |-> sign, d |-> 0]

Sign(x) == IF x < 0 THEN -1 ELSE IF x > 0 THEN 1 ELSE 0

\* The number n/d (d # 0) in lowest terms.
Num(n, d) ==
    LET g == Gcd(Abs(n), Abs(d))
        s == IF d < 0 THEN -1 ELSE 1
    IN  [k |-> "num", n |-> (s * n) \div g, d |-> (s * d) \div g]

\* a - b
JsSub(a, b) ==
    IF a.k = "NaN" \/ b.k = "NaN" THEN NaN
    ELSE IF a.k = "inf" /\ b.k = "inf" THEN (IF a.n = b.n THEN NaN ELSE a)
    ELSE IF a.k = "inf" THEN a
    ELSE IF b.k = "inf" THEN Inf(-b.n)
    ELSE Num(a.n * b.d - b.n * a.d, a.d * b.d)

\* a / b
JsDiv(a, b) ==
    IF a.k = "NaN" \/ b.k = "NaN" THEN NaN
    ELSE IF a.k = "inf" /\ b.k = "inf" THEN NaN
    ELSE IF a.k = "inf" THEN Inf(IF b.n < 0 THEN -a.n ELSE a.n)
    ELSE IF b.k = "inf" THEN Num(0, 1)
    ELSE IF b.n = 0 THEN (IF a.n = 0 THEN NaN ELSE Inf(Sign(a.n)))
    ELSE Num(a.n * b.d, a.d * b.n)

\* a * b
JsMul(a, b) ==
    IF a.k = "NaN" \/ b.k = "NaN" THEN NaN
    ELSE IF a.k = "inf" \/ b.k = "inf"
         THEN (IF a.n = 0 \/ b.n = 0 THEN NaN ELSE Inf(Sign(a.n) * Sign(b.n)))
    ELSE Num(a.n * b.n, a.d * b.d)

-----------------------------------------------------------------------------
(* Dates: new Date("YYYY-MM-DD").getTime() *)

\* Day number of a calendar date, 1970-01-01 being day 0.
DaysFromCivil(date) ==
    LET y   == IF date.m <= 2 THEN date.y - 1 ELSE date.y
        era == y \div 400
        yoe == y - era * 400
        mp  == (date.m + 9) % 12
        doy == (153 * mp + 2) \div 5 + date.d - 1
        doe == yoe * 365 + yoe \div 4 - yoe \div 100 + doy
    IN  era * 146097 + doe - 719468

\* A date-only ISO string is parsed as UTC midnight.  The result, epoch
\* milliseconds, is kept as whole seconds and the milliseconds beyond them
\* (sec * 1000 + ms), which keeps it inside the checker's integers.
DateGetTime(date) == [sec |-> DaysFromCivil(date) * 86400, ms |-> 0]

-----------------------------------------------------------------------------
(* Arrays *)

Undefined == [tag |-> "undefined", elems |-> <<>>]

Arr(s) == [tag |-> "array", elems |-> s]

None == [tag |-> "none", elems |-> <<>>, alias |-> FALSE]

Min(a, b) == IF a < b THEN a ELSE b

Max(a, b) == IF a > b THEN a ELSE b

\* Array.prototype.slice(start): a new array holding the elements from the
\* relative index start to the end; the receiver is left as it is.
ArraySlice(elems, start) ==
    LET len == Len(elems)
        k   == IF start < 0 THEN Max(len + start, 0) ELSE Min(start, len)
    IN  [ret |-> SubSeq(elems, k + 1, len), self |-> elems]

-----------------------------------------------------------------------------
(* Period windower *)

\* Variant that drops the leading days elements: history.slice(days).
filterDataByPeriod_dropLeading(h, p) ==
    IF h.tag = "undefined" \/ Len(h.elems) = 0 \/ p = "ALL"
    THEN [ret |-> [tag |-> h.tag, elems |-> h.elems, alias |-> TRUE], arg |-> h]
    ELSE LET days == CASE p = "1M" -> 21 [] p = "3M" -> 63 [] p = "6M" -> 126
                       [] OTHER -> Len(h.elems)
             s    == ArraySlice(h.elems, days)
         IN  [ret |-> [tag |-> "array", elems |-> s.ret, alias |-> FALSE],
              arg |-> [h EXCEPT !.elems = s.self]]

\* Variant that counts calendar days (30 / 90 / 180) instead of trading days.
filterDataByPeriod_calendarDays(h, p) ==
    IF h.tag = "undefined" \/ Len(h.elems) = 0 \/ p = "ALL"
    THEN [ret |-> [tag |-> h.tag, elems |-> h.elems, alias |-> TRUE], arg |-> h]
    ELSE LET days == CASE p = "1M" -> 30 [] p = "3M" -> 90 [] p = "6M" -> 180
                       [] OTHER -> Len(h.elems)
             s    == ArraySlice(h.elems, -days)
         IN  [ret |-> [tag |-> "array", elems |-> s.ret, alias |-> FALSE],
              arg |-> [h EXCEPT !.elems = s.self]]

\* Variant that takes the leading days elements: history.slice(0, days).
filterDataByPeriod_head(h, p) ==
    IF h.tag = "undefined" \/ Len(h.elems) = 0 \/ p = "ALL"
    THEN [ret |-> [tag |-> h.tag, elems |-> h.elems, alias |-> TRUE], arg |-> h]
    ELSE LET days == CASE p = "1M" -> 21 [] p = "3M" -> 63 [] p = "6M" -> 126
                       [] OTHER -> Len(h.elems)
         IN  [ret |-> [tag |-> "array",
                       elems |-> SubSeq(h.elems, 1, Min(days, Len(h.elems))),
                       alias |-> FALSE],
              arg |-> h]

\* Variant without the period === 'ALL' test: 'ALL' reaches the switch as one
\* more unlisted token and falls back to one month.
filterDataByPeriod_noAll(h, p) ==
    IF h.tag = "undefined" \/ Len(h.elems) = 0
    THEN [ret |-> [tag |-> h.tag, elems |-> h.elems, alias |-> TRUE], arg |-> h]
    ELSE LET days == CASE p = "1M" -> 21 [] p = "3M" -> 63 [] p = "6M" -> 126
                       [] OTHER -> 21
             s    == ArraySlice(h.elems, -days)
         IN  [ret |-> [tag |-> "array", elems |-> s.ret, alias |-> FALSE],
              arg |-> [h EXCEPT !.elems = s.self]]

\* Variant whose default case falls back to one month.
filterDataByPeriod_defaultMonth(h, p) ==
    IF h.tag = "undefined" \/ Len(h.elems) = 0 \/ p = "ALL"
    THEN [ret |-> [tag |-> h.tag, elems |-> h.elems, alias |-> TRUE], arg |-> h]
    ELSE LET days == CASE p = "1M" -> 21 [] p = "3M" -> 63 [] p = "6M" -> 126
                       [] OTHER -> 21
             s    == ArraySlice(h.elems, -days)
         IN  [ret |-> [tag |-> "array", elems |-> s.ret, alias |-> FALSE],
              arg |-> [h EXCEPT !.elems = s.self]]

\* Variant that cuts the window out of the history: history.splice(-days).
filterDataByPeriod_splice(h, p) ==
    IF h.tag = "undefined" \/ Len(h.elems) = 0 \/ p = "ALL"
    THEN [ret |-> [tag |-> h.tag, elems |-> h.elems, alias |-> TRUE], arg |-> h]
    ELSE LET days == CASE p = "1M" -> 21 [] p = "3M" -> 63 [] p = "6M" -> 126
                       [] OTHER -> Len(h.elems)
             s    == ArraySlice(h.elems, -days)
         IN  [ret |-> [tag |-> "array", elems |-> s.ret, alias |-> FALSE],
              arg |-> [h EXCEPT !.elems =
                          SubSeq(h.elems, 1, Len(h.elems) - Len(s.ret))]]

\* filterDataByPeriod(history, period): the value returned and the argument
\* after the call.
filterDataByPeriod(h, p) ==
    IF h.tag = "undefined" \/ Len(h.elems) = 0 \/ p = "ALL"
    THEN [ret |-> [tag |-> h.tag, elems |-> h.elems, alias |-> TRUE], arg |-> h]
    ELSE LET days == CASE p = "1M" -> 21
                       [] p = "3M" -> 63
                       [] p = "6M" -> 126
                       [] OTHER    -> Len(h.elems)
             s    == ArraySlice(h.elems, -days)
         IN  [ret |-> [tag |-> "array", elems |-> s.ret, alias |-> FALSE],
              arg |-> [h EXCEPT !.elems = s.self]]

-----------------------------------------------------------------------------
(* Cumulative change calculator *)

\* The callback of history.map: one output point for one item.
CumulativePoint(item, basePrice) ==
    [x |-> DateGetTime(item.date),
     y |-> JsMul(JsDiv(JsSub(item.close, basePrice), basePrice), Num(100, 1))]

\* Array.prototype.map with that callback: a new array of the same length,
\* element i made from element i; the receiver is left as it is.
ArrayMapCumulative(elems, basePrice) ==
    [ret  |-> [i \in 1..Len(elems) |-> CumulativePoint(elems[i], basePrice)],
     self |-> elems]

\* Variant whose baseline is the last close of the series.
calculateCumulativeChange_lastBase(h) ==
    IF h.tag = "undefined" \/ Len(h.elems) = 0
    THEN [ret |-> [tag |-> "array", elems |-> <<>>, alias |-> FALSE], arg |-> h]
    ELSE LET m == ArrayMapCumulative(h.elems, h.elems[Len(h.elems)].close)
         IN  [ret |-> [tag |-> "array", elems |-> m.ret, alias |-> FALSE],
              arg |-> [h EXCEPT !.elems = m.self]]

\* Variant that leaves the baseline point out: history.slice(1).map(...).
calculateCumulativeChange_skipBase(h) ==
    IF h.tag = "undefined" \/ Len(h.elems) = 0
    THEN [ret |-> [tag |-> "array", elems |-> <<>>, alias |-> FALSE], arg |-> h]
    ELSE LET m == ArrayMapCumulative(Tail(h.elems), h.elems[1].close)
         IN  [ret |-> [tag |-> "array", elems |-> m.ret, alias |-> FALSE],
              arg |-> h]

\* Variant that divides by the item's own close instead of the baseline.
calculateCumulativeChange_ownClose(h) ==
    IF h.tag = "undefined" \/ Len(h.elems) = 0
    THEN [ret |-> [tag |-> "array", elems |-> <<>>, alias |-> FALSE], arg |-> h]
    ELSE LET base == h.elems[1].close
         IN  [ret |-> [tag |-> "array",
                       elems |-> [i \in 1..Len(h.elems) |->
                                    [x |-> DateGetTime(h.elems[i].date),
                                     y |-> JsMul(JsDiv(JsSub(h.elems[i].close, base),
                                                       h.elems[i].close),
                                                 Num(100, 1))]],
                       alias |-> FALSE],
              arg |-> h]

\* Variant without the length guard: history[0].close on an empty array
\* reads a property of undefined and throws.
calculateCumulativeChange_noGuard(h) ==
    IF h.tag = "undefined" \/ Len(h.elems) = 0
    THEN [ret |-> [tag |-> "throw", elems |-> <<>>, alias |-> FALSE], arg |-> h]
    ELSE LET m == ArrayMapCumulative(h.elems, h.elems[1].close)
         IN  [ret |-> [tag |-> "array", elems |-> m.ret, alias |-> FALSE],
              arg |-> [h EXCEPT !.elems = m.self]]

\* calculateCumulativeChange(history): the value returned and the argument
\* after the call.
calculateCumulativeChange(h) ==
    IF h.tag = "undefined" \/ Len(h.elems) = 0
    THEN [ret |-> [tag |-> "array", elems |-> <<>>, alias |-> FALSE], arg |-> h]
    ELSE LET basePrice == h.elems[1].close
             m         == ArrayMapCumulative(h.elems, basePrice)
         IN  [ret |-> [tag |-> "array", elems |-> m.ret, alias |-> FALSE],
              arg |-> [h EXCEPT !.elems = m.self]]

-----------------------------------------------------------------------------
(* Inputs: the history of one symbol, fullMarketData[symbol] *)

DaysInMonth(y, m) ==
    IF m = 2
    THEN (IF (y % 4 = 0 /\ y % 100 # 0) \/ y % 400 = 0 THEN 29 ELSE 28)
    ELSE IF m \in {4, 6, 9, 11} THEN 30 ELSE 31

\* The date k days after date (k >= 0), month by month.
RECURSIVE AddDays(_, _)
AddDays(date, k) ==
    LET left == DaysInMonth(date.y, date.m) - date.d
    IN  IF k <= left THEN [date EXCEPT !.d = date.d + k]
        ELSE AddDays(IF date.m < 12
                     THEN [y |-> date.y, m |-> date.m + 1, d |-> 1]
                     ELSE [y |-> date.y + 1, m |-> 1, d |-> 1],
                     k - left - 1)

\* The date of the first point of every history drawn: the run of dates
\* crosses a year end and a leap day.
FirstDate == [y |-> 2023, m |-> 11, d |-> 20]

\* Close prices repeat one of these cycles: the prices of Scenario A, a
\* series that starts at 0 and comes back to it, and a series of decimal
\* prices whose percentages are not whole numbers.
CloseCycles ==
    { << Num(100, 1), Num(110, 1), Num(90, 1) >>,
      << Num(0, 1), Num(5, 1), Num(10, 1), Num(4, 1) >>,
      << Num(25, 2), Num(7, 1) >> }

\* Dates[i] is the date of point i: ascending, unique, one per day.
Dates == [i \in 1..MaxLen |-> AddDays(FirstDate, i - 1)]

\* One HistoryPoint: change_percent is the change from the previous close,
\* 0 where there is no previous close to divide by.
Point(i, cycle) ==
    LET c == cycle[((i - 1) % Len(cycle)) + 1]
        q == cycle[((i + Len(cycle) - 2) % Len(cycle)) + 1]
    IN  [date |-> Dates[i], close |-> c,
         change_percent |-> IF i = 1 \/ q.n = 0 THEN Num(0, 1)
                            ELSE JsMul(JsDiv(JsSub(c, q), q), Num(100, 1))]

MkHistory(n, cycle) == Arr([i \in 1..n |-> Point(i, cycle)])

\* fullMarketData[symbol]: undefined when the symbol is missing, else an
\* array of 0..MaxLen points.
Inputs ==
    {Undefined} \cup {MkHistory(n, c) : n \in 0..MaxLen, c \in CloseCycles}

\* Period tokens: the four of the filter buttons and one the switch does not
\* list.
Periods == {"1M", "3M", "6M", "ALL", "1Y"}

-----------------------------------------------------------------------------
(* The parts of the page that take no part in a run of the calls below *)

NoValue == [kind |-> "none"]

GwIdle ==
    /\ gwVariant = "none"
    /\ gwPc = "idle"
    /\ gwNet = NoValue
    /\ gwResult = NoValue

\* JSON null, and the object without keys.
Null == [tag |-> "null"]

EmptyObject == [tag |-> "object", fields |-> << >>]

\* No page is loaded.
PageIdle ==
    /\ page = "none"
    /\ dom = << >>
    /\ tasks = << >>
    /\ fullMarketData = EmptyObject
    /\ fetchLog = << >>
    /\ darkMode = FALSE
    /\ storage = << >>
    /\ handlers = {}
    /\ timers = << >>
    /\ globalMarketsChart = Null
    /\ orphanCharts = {}

otherVars == <<gwVars, pageVars>>

OthersIdle == GwIdle /\ PageIdle

-----------------------------------------------------------------------------
(* The calls *)

Init ==
    /\ history \in Inputs
    /\ period = "ALL"
    /\ windowed = None
    /\ rewindowed = None
    /\ series = None
    /\ seriesOf = "none"
    /\ pc = "loaded"
    /\ OthersIdle

\* history = filterDataByPeriod(fullHistory, period)
CallFilter(p) ==
    /\ pc = "loaded"
    /\ LET r == filterDataByPeriod(history, p)
       IN  /\ windowed' = r.ret
           /\ history' = r.arg
    /\ period' = p
    /\ pc' = "windowed"
    /\ UNCHANGED <<rewindowed, series, seriesOf>>
    /\ UNCHANGED otherVars

\* filterDataByPeriod applied to its own result, with the same period.
CallFilterAgain ==
    /\ pc = "windowed"
    /\ windowed.tag \in {"array", "undefined"}
    /\ LET w == [tag |-> windowed.tag, elems |-> windowed.elems]
           r == filterDataByPeriod(w, period)
       IN  /\ rewindowed' = r.ret
           /\ windowed' = [windowed EXCEPT !.elems = r.arg.elems]
           /\ history' = IF windowed.alias THEN r.arg ELSE history
    /\ pc' = "rewindowed"
    /\ UNCHANGED <<period, series, seriesOf>>
    /\ UNCHANGED otherVars

\* calculateCumulativeChange(fullHistory)
CallCumulativeOnHistory ==
    /\ series = None
    /\ LET r == calculateCumulativeChange(history)
       IN  /\ series' = r.ret
           /\ history' = r.arg
           /\ windowed' = IF windowed.alias
                          THEN [windowed EXCEPT !.elems = r.arg.elems]
                          ELSE windowed
    /\ seriesOf' = "history"
    /\ UNCHANGED <<period, rewindowed, pc>>
    /\ UNCHANGED otherVars

\* seriesData = calculateCumulativeChange(history), history being the window
CallCumulativeOnWindow ==
    /\ series = None
    /\ pc = "windowed"
    /\ windowed.tag \in {"array", "undefined"}
    /\ LET w == [tag |-> windowed.tag, elems |-> windowed.elems]
           r == calculateCumulativeChange(w)
       IN  /\ series' = r.ret
           /\ windowed' = [windowed EXCEPT !.elems = r.arg.elems]
           /\ history' = IF windowed.alias THEN r.arg ELSE history
    /\ seriesOf' = "windowed"
    /\ UNCHANGED <<period, rewindowed, pc>>
    /\ UNCHANGED otherVars

Next ==
    \/ \E p \in Periods : CallFilter(p)
    \/ CallFilterAgain
    \/ CallCumulativeOnHistory
    \/ CallCumulativeOnWindow

Spec == Init /\ [][Next]_vars

-----------------------------------------------------------------------------
(* Properties of the period windower *)

\* The window has been computed from history with period.
Windowed == pc \in {"windowed", "rewindowed"}

\* The trading-day table of the specification.
TradingDays(p) == CASE p = "1M" -> 21 [] p = "3M" -> 63 [] p = "6M" -> 126

\* C1: for a history h and a period p in {1M, 3M, 6M}, filterDataByPeriod
\* returns an array of exactly min(len(h), days(p)) elements, days being
\* 1M -> 21, 3M -> 63, 6M -> 126; a history shorter than days(p) comes back
\* whole.
C1_WindowLength ==
    (Windowed /\ history.tag = "array" /\ period \in {"1M", "3M", "6M"})
        => /\ windowed.tag = "array"
           /\ Len(windowed.elems) = Min(Len(history.elems), TradingDays(period))
           /\ Len(history.elems) < TradingDays(period)
                  => windowed.elems = history.elems

\* A six-month window has been cut out of a longer history.
C1_Witness ==
    /\ pc = "windowed" /\ period = "6M"
    /\ history.tag = "array" /\ Len(history.elems) > 126
    /\ Len(windowed.elems) = 126

\* C2: for every period, the window is a contiguous suffix of the history:
\* its k elements are the last k elements of the history in their order, so
\* the last element of a non-empty history is the last element of the window.
C2_ContiguousSuffix ==
    (Windowed /\ history.tag = "array")
        => LET n == Len(history.elems)
               k == Len(windowed.elems)
           IN  /\ windowed.tag = "array"
               /\ k <= n
               /\ \A i \in 1..k : windowed.elems[i] = history.elems[n - k + i]
               /\ n > 0 => (k > 0 /\ windowed.elems[k] = history.elems[n])

\* Scenario B: a history of 25 points, 1M returns points 5..25.
C2_Witness ==
    /\ pc = "windowed" /\ period = "1M"
    /\ history.tag = "array" /\ Len(history.elems) = 25
    /\ Len(windowed.elems) = 21
    /\ windowed.elems[1] = history.elems[5]
    /\ windowed.elems[1] # history.elems[1]

\* C3: with period 'ALL' the function returns the history itself: the same
\* array object, with its elements as they were.
C3_AllIsIdentity ==
    (Windowed /\ history.tag = "array" /\ period = "ALL")
        => /\ windowed.alias
           /\ windowed.tag = "array"
           /\ windowed.elems = history.elems

\* 'ALL' has been applied to a history longer than every trading-day count.
C3_Witness ==
    /\ pc = "windowed" /\ period = "ALL"
    /\ history.tag = "array" /\ Len(history.elems) > 126
    /\ windowed.alias

\* C4: a period token outside {1M, 3M, 6M, ALL} gives an array with the same
\* elements in the same order as 'ALL' gives: nothing is trimmed.
C4_UnknownPeriodAsAll ==
    (Windowed /\ history.tag = "array"
              /\ period \notin {"1M", "3M", "6M", "ALL"})
        => /\ windowed.tag = "array"
           /\ windowed.elems = filterDataByPeriod(history, "ALL").ret.elems
           /\ Len(windowed.elems) = Len(history.elems)

\* An unlisted token has been applied to a history longer than one month.
C4_Witness ==
    /\ pc = "windowed" /\ period = "1Y"
    /\ history.tag = "array" /\ Len(history.elems) > 21
    /\ Len(windowed.elems) = Len(history.elems)

\* C5: for an empty history both functions return an empty array, for every
\* period: none of them throws or returns null.
C5_EmptyInEmptyOut ==
    (history.tag = "array" /\ Len(history.elems) = 0)
        => /\ Windowed => (windowed.tag = "array" /\ windowed.elems = << >>)
           /\ seriesOf # "none"
                  => (series.tag = "array" /\ series.elems = << >>)

\* Both functions have been applied to an empty history.
C5_Witness ==
    /\ history.tag = "array" /\ Len(history.elems) = 0
    /\ pc = "windowed" /\ period = "3M" /\ windowed.tag = "array"
    /\ seriesOf = "history" /\ series.tag = "array"

\* C6: windowing the window again with the same period changes nothing: the
\* second result has the elements of the first, in the same order.
C6_Idempotent ==
    (pc = "rewindowed" /\ history.tag = "array")
        => /\ rewindowed.tag = windowed.tag
           /\ rewindowed.elems = windowed.elems

\* A trimmed window has been windowed a second time.
C6_Witness ==
    /\ pc = "rewindowed" /\ period = "1M"
    /\ history.tag = "array" /\ Len(history.elems) > 21
    /\ Len(windowed.elems) = 21 /\ Len(rewindowed.elems) = 21

\* C7: no call of filterDataByPeriod or calculateCumulativeChange changes the
\* array it is given: the history, and the window once it exists, keep their
\* length, their elements, the order and every field of every element.
C7_InputsNotMutated ==
    [][/\ history' = history
       /\ windowed # None => windowed' = windowed]_vars

\* Both functions have been applied to the history and to its window, and the
\* history is still one of the inputs.
C7_Witness ==
    /\ pc = "rewindowed" /\ period = "1M" /\ seriesOf = "history"
    /\ history.tag = "array" /\ Len(history.elems) > 21
    /\ history \in Inputs

-----------------------------------------------------------------------------
(* Properties of the cumulative change calculator *)

\* The array calculateCumulativeChange was applied to.
SeriesSource == IF seriesOf = "history" THEN history.elems ELSE windowed.elems

\* The series has been computed from an array (not from undefined).
SeriesOfArray ==
    /\ seriesOf # "none"
    /\ (IF seriesOf = "history" THEN history.tag ELSE windowed.tag) = "array"

\* C8 as stated: for every non-empty history, whatever the close of its first
\* point, the first point of the series has value exactly 0.
C8_FirstValueZeroAlways ==
    (SeriesOfArray /\ Len(SeriesSource) > 0)
        => (series.tag = "array" /\ series.elems[1].y = Num(0, 1))

\* C8 (amended): for every non-empty history whose first close is a finite
\* number other than 0, the first point of the series has value exactly 0;
\* when the first close is 0 the first value is NaN.
C8_FirstValueZero ==
    (SeriesOfArray /\ Len(SeriesSource) > 0)
        => /\ series.tag = "array"
           /\ (SeriesSource[1].close.k = "num" /\ SeriesSource[1].close.n # 0)
                  => series.elems[1].y = Num(0, 1)
           /\ SeriesSource[1].close = Num(0, 1) => series.elems[1].y = NaN

\* A series over three or more points with a non-zero baseline: the first
\* value is 0 and a later one is not.
C8_Witness ==
    /\ SeriesOfArray /\ Len(SeriesSource) >= 3
    /\ SeriesSource[1].close.n # 0
    /\ series.elems[1].y = Num(0, 1)
    /\ series.elems[2].y # Num(0, 1)

\* Position in the calendar of the drawn histories of a point's date.
DayIndex(date) == CHOOSE j \in 1..MaxLen : Dates[j] = date

\* C9: the series has the length of the history and its order: point i
\* carries the timestamp of the date of history point i (2023-11-20, the
\* first date drawn, is day 19681 of the epoch, and a day has 86400 s).
C9_SameLengthAndOrder ==
    SeriesOfArray
        => /\ series.tag = "array"
           /\ Len(series.elems) = Len(SeriesSource)
           /\ \A i \in 1..Len(SeriesSource) :
                 series.elems[i].x =
                     [sec |-> (19681 + DayIndex(SeriesSource[i].date) - 1) * 86400,
                      ms  |-> 0]

\* A series over a three-month window of a longer history: 63 points, the
\* first one dated after the first date of the history.
C9_Witness ==
    /\ seriesOf = "windowed" /\ period = "3M" /\ windowed.tag = "array"
    /\ Len(history.elems) > 63
    /\ Len(series.elems) = 63
    /\ series.elems[1].x.sec > 19681 * 86400

\* C10: for a non-empty history whose first close b is not 0, the value v of
\* point i is (c - b) / b * 100, c being the close of history point i; with
\* the fractions written out, v.n / v.d = 100 (c.n b.d - b.n c.d) / (c.d b.n).
\* Closes 100, 110, 90 give the values 0, 10, -10.
C10_PercentOfBase ==
    (SeriesOfArray /\ Len(SeriesSource) > 0 /\ SeriesSource[1].close.n # 0)
        => /\ \A i \in 1..Len(SeriesSource) :
                 LET v == series.elems[i].y
                     c == SeriesSource[i].close
                     b == SeriesSource[1].close
                 IN  /\ v.k = "num"
                     /\ v.n * c.d * b.n = 100 * (c.n * b.d - b.n * c.d) * v.d
           /\ [i \in 1..Len(SeriesSource) |-> SeriesSource[i].close]
                  = << Num(100, 1), Num(110, 1), Num(90, 1) >>
              => [i \in 1..Len(series.elems) |-> series.elems[i].y]
                  = << Num(0, 1), Num(10, 1), Num(-10, 1) >>

\* Scenario A: the series of closes 100, 110, 90 has been computed.
C10_Witness ==
    /\ seriesOf = "history" /\ history.tag = "array" /\ Len(history.elems) = 3
    /\ history.elems[1].close = Num(100, 1)
    /\ history.elems[2].close = Num(110, 1)
    /\ history.elems[3].close = Num(90, 1)
    /\ series.elems[2].y = Num(10, 1)
    /\ series.elems[3].y = Num(-10, 1)

-----------------------------------------------------------------------------
(* Data fetch gateway: fetchData *)

\* The copies of fetchData in the repository, by the place of their header.
FetchDataVariants ==
    {"script.js:266", "script.js:849", "part_000:12", "fund_flow.js:103",
     "fund_flow.js:189"}

\* HTTP statuses delivered: both ends of the 2xx range, the first status
\* after it, 404 and a server error.
Statuses == {200, 299, 300, 404, 500}

\* Parsed JSON values, as far as the gateway tells them apart.
JsonValues ==
    {Null, EmptyObject, Arr(<< >>), [tag |-> "object", fields |-> [k \in {"a"} |-> Null]],
     Arr(<<Null>>)}

\* A response body: text that parses to a JSON value, or text that does not.
Bodies ==
    {[valid |-> FALSE, json |-> Null]}
        \cup {[valid |-> TRUE, json |-> v] : v \in JsonValues}

\* How the underlying fetch() settles: it rejects, or delivers a response.
NetOutcomes ==
    {[kind |-> "reject", status |-> 0, body |-> [valid |-> FALSE, json |-> Null]]}
        \cup {[kind |-> "response", status |-> st, body |-> b] :
                  st \in Statuses, b \in Bodies}

\* response.ok
ResponseOk(status) == status >= 200 /\ status <= 299

Fulfilled(v) == [kind |-> "fulfilled", value |-> v]

Rejected == [kind |-> "rejected", value |-> "error"]

\* The step of an async function after an await: it goes on to the next
\* await, or its promise settles.
GoOn(to) == [pc |-> to, result |-> NoValue]

Settle(result) == [pc |-> "done", result |-> result]

\* Variant of the script.js copy without try / catch: what is thrown rejects
\* the promise.
fetchDataScript_noCatch(net) ==
    IF net.kind = "reject" THEN Settle(Rejected)
    ELSE IF ~ResponseOk(net.status) THEN Settle(Rejected)
    ELSE GoOn("awaitJson")

\* script.js: after await fetch(url).  A rejection or a thrown Error lands
\* in the catch block, which returns null.
fetchDataScript(net) ==
    IF net.kind = "reject" THEN Settle(Fulfilled(Null))
    ELSE IF ~ResponseOk(net.status) THEN Settle(Fulfilled(Null))
    ELSE GoOn("awaitJson")

\* part_000 and fund_flow.js:103: a 404 returns null at once, every other
\* status that is not ok throws into the catch block, which returns null.
fetchDataPart000(net) ==
    IF net.kind = "reject" THEN Settle(Fulfilled(Null))
    ELSE IF ~ResponseOk(net.status)
         THEN (IF net.status = 404 THEN Settle(Fulfilled(Null))
               ELSE Settle(Fulfilled(Null)))
    ELSE GoOn("awaitJson")

\* fund_flow.js:189: a status that is not ok returns null without throwing.
fetchDataFundFlow(net) ==
    IF net.kind = "reject" THEN Settle(Fulfilled(Null))
    ELSE IF ~ResponseOk(net.status) THEN Settle(Fulfilled(Null))
    ELSE GoOn("awaitJson")

\* After await fetch(...), in the copy that runs.
fetchDataOnFetch(variant, net) ==
    CASE variant \in {"script.js:266", "script.js:849"} -> fetchDataScript(net)
      [] variant \in {"part_000:12", "fund_flow.js:103"} -> fetchDataPart000(net)
      [] variant = "fund_flow.js:189" -> fetchDataFundFlow(net)

\* After await response.json(), the same in every copy: the parsed value is
\* returned, a parse error lands in the catch block, which returns null.
fetchDataOnJson(variant, body) ==
    IF body.valid THEN Fulfilled(body.json) ELSE Fulfilled(Null)

gwFrame == <<calcVars, pageVars>>

\* fetchData(path) is called: it issues fetch() and waits.
GwCall(v) ==
    /\ gwPc = "idle"
    /\ gwVariant' = v
    /\ gwPc' = "awaitFetch"
    /\ UNCHANGED <<gwNet, gwResult>>
    /\ UNCHANGED gwFrame

\* fetch() settles and fetchData runs on to its next await or to its end.
GwFetchSettles(net) ==
    /\ gwPc = "awaitFetch"
    /\ gwNet' = net
    /\ LET r == fetchDataOnFetch(gwVariant, net)
       IN  /\ gwPc' = r.pc
           /\ gwResult' = r.result
    /\ UNCHANGED gwVariant
    /\ UNCHANGED gwFrame

\* response.json() settles and fetchData returns.
GwJsonSettles ==
    /\ gwPc = "awaitJson"
    /\ gwResult' = fetchDataOnJson(gwVariant, gwNet.body)
    /\ gwPc' = "done"
    /\ UNCHANGED <<gwVariant, gwNet>>
    /\ UNCHANGED gwFrame

\* No history is being windowed.
CalcIdle ==
    /\ history = Undefined
    /\ period = "ALL"
    /\ windowed = None
    /\ rewindowed = None
    /\ series = None
    /\ seriesOf = "none"
    /\ pc = "idle"

InitFetch == CalcIdle /\ GwIdle /\ PageIdle

NextFetch ==
    \/ \E v \in FetchDataVariants : GwCall(v)
    \/ \E net \in NetOutcomes : GwFetchSettles(net)
    \/ GwJsonSettles

SpecFetch == InitFetch /\ [][NextFetch]_vars

\* C11: fetchData never lets an error through: whatever the underlying fetch
\* does (a rejection, a status outside 2xx, 404 or not, a body that is not
\* JSON) the promise is fulfilled with null, and for a 2xx response with a
\* JSON body it is fulfilled with the parsed value; in every copy.
C11_FetchNeverThrows ==
    /\ gwResult.kind # "rejected"
    /\ gwPc = "done"
         => /\ gwResult.kind = "fulfilled"
            /\ gwResult.value =
                 IF gwNet.kind = "response" /\ gwNet.status \in 200..299
                        /\ gwNet.body.valid
                 THEN gwNet.body.json
                 ELSE Null

\* A copy with the 404 test has met a status that is neither 2xx nor 404,
\* with a body that would parse.
C11_Witness ==
    /\ gwPc = "done" /\ gwVariant = "part_000:12"
    /\ gwNet.kind = "response" /\ gwNet.status = 500 /\ gwNet.body.valid
    /\ gwResult = Fulfilled(Null)

-----------------------------------------------------------------------------
(* JavaScript values read from JSON, strings and number formatting *)

\* A string, where only its identity matters.
Str(s) == [tag |-> "string", s |-> s]

\* A string, where its characters matter.
Chars(cs) == [tag |-> "string", chars |-> cs]

\* if (v): undefined, null, 0, NaN and "" are falsy, all else is truthy (a
\* date string, kept as [y, m, d], is not empty).
Truthy(v) ==
    IF v = Undefined \/ v = Null THEN FALSE
    ELSE IF "k" \in DOMAIN v THEN (v.k = "inf" \/ (v.k = "num" /\ v.n # 0))
    ELSE IF "y" \in DOMAIN v THEN TRUE
    ELSE IF v.tag = "string"
         THEN (IF "chars" \in DOMAIN v THEN v.chars # << >> ELSE v.s # "")
    ELSE TRUE

\* value.property: undefined when the object has no such key; reading a
\* property of null or undefined throws, which callers test with Throws.
Field(v, name) ==
    IF "fields" \in DOMAIN v /\ name \in DOMAIN v.fields THEN v.fields[name]
    ELSE Undefined

Throws(v) == v = Null \/ v = Undefined

\* value.length
Length(v) ==
    IF "elems" \in DOMAIN v /\ v.tag = "array" THEN Num(Len(v.elems), 1)
    ELSE Undefined

\* `!data || data.length === 0`
MissingOrEmpty(data) == ~Truthy(data) \/ Length(data) = Num(0, 1)

\* `data && data.length > 0`
PresentAndNonEmpty(data) ==
    /\ Truthy(data)
    /\ Length(data) # Undefined
    /\ Length(data).n > 0

\* The decimal strings that occur as values in the JSON drawn, with the
\* number parseFloat reads from each.
DecimalStrings == [s \in {"3.8125"} |-> Num(61, 16)]

\* parseFloat(v): a number is itself, a string is the number it starts with,
\* anything else is NaN.
ParseFloat(v) ==
    IF "k" \in DOMAIN v THEN v
    ELSE IF v.tag = "string" /\ v.s \in DOMAIN DecimalStrings
         THEN DecimalStrings[v.s]
    ELSE NaN

RECURSIVE Pow10(_)
Pow10(f) == IF f = 0 THEN 1 ELSE 10 * Pow10(f - 1)

\* Number.prototype.toFixed(f): the decimal with f digits nearest to x, the
\* larger one in a tie; kept as the integer scaled = text * 10^f.
NumberToFixed(x, f) ==
    IF x.k = "NaN" THEN [kind |-> "text", text |-> "NaN"]
    ELSE IF x.k = "inf"
         THEN [kind |-> "text", text |-> IF x.n > 0 THEN "Infinity" ELSE "-Infinity"]
    ELSE [kind |-> "fixed", digits |-> f,
          scaled |-> Sign(x.n) * ((2 * Abs(x.n) * Pow10(f) + x.d) \div (2 * x.d))]

\* Calendar date of a day number: the inverse of DaysFromCivil.
CivilFromDays(days) ==
    LET z   == days + 719468
        era == z \div 146097
        doe == z - era * 146097
        yoe == (doe - doe \div 1460 + doe \div 36524 - doe \div 146096) \div 365
        doy == doe - (365 * yoe + yoe \div 4 - yoe \div 100)
        mp  == (5 * doy + 2) \div 153
        m   == IF mp < 10 THEN mp + 3 ELSE mp - 9
    IN  [y |-> yoe + era * 400 + (IF m <= 2 THEN 1 ELSE 0), m |-> m,
         d |-> doy - (153 * mp + 2) \div 5 + 1]

\* new Date(ms).toISOString().substring(0, 10)
IsoDate(ts) == CivilFromDays(ts.sec \div 86400)

\* A string as its characters, for String.prototype.includes.
Includes(s, needle) ==
    \E i \in 0..(Len(s) - Len(needle)) : SubSeq(s, i + 1, i + Len(needle)) = needle

Lower ==
    [c \in {"E", "F", "G", "N", "P"} |->
        CASE c = "E" -> "e" [] c = "F" -> "f" [] c = "G" -> "g"
          [] c = "N" -> "n" [] c = "P" -> "p"]

\* String.prototype.toLowerCase
ToLowerCase(s) ==
    [i \in 1..Len(s) |-> IF s[i] \in DOMAIN Lower THEN Lower[s[i]] ELSE s[i]]

-----------------------------------------------------------------------------
(* The document *)

\* What an element shows before any script has written to it.
Placeholder == [kind |-> "placeholder"]

\* A fixed text.
Text(s) == [kind |-> "text", text |-> s]

\* Elements of the card layout of index.html, which the first script.js
\* writes to and the second still supports.
CardSymbols == {"spy", "qqq", "dia", "vix", "hsi", "n225"}

HiborCardIds == {"hibor-1m", "hibor-3m", "hibor-6m", "hibor-timestamp"}

FngCardIds == {"fng-value", "fng-sentiment", "fng-timestamp", "fng-chart"}

CardId(sym, part) == sym \o "-" \o part

MarketCardIds == {CardId(sym, part) : sym \in CardSymbols, part \in {"value", "change", "chart"}}

CardLayout == HiborCardIds \cup FngCardIds \cup MarketCardIds

\* Elements of the container layout of index.html.
ContainerLayout ==
    {"global-timestamp-container", "hibor-rates-container",
     "market-breadth-container", "global-markets-container",
     "fear-greed-container", "theme-icon", "theme-toggle"}

\* Elements of the page that part_001 runs in.
Part001Layout ==
    {"fearGreedIndex", "fearGreedStatus", "fearGreedTimestamp", "hiborRates",
     "hiborTimestamp", "marketBreadth", "marketBreadthTimestamp", "fundFlows",
     "fundFlowsTimestamp", "lastUpdate", "refreshBtn"}

\* The document as shipped: every element shows its placeholder.
InitialDom(layout) == [id \in layout |-> Placeholder]

\* document.getElementById(id) finds an element.
Has(d, id) == id \in DOMAIN d

\* `if (el) el.textContent = c`
SetIfPresent(d, id, c) == IF Has(d, id) THEN [d EXCEPT ![id] = c] ELSE d

\* The outcome of a stretch of code: the document it leaves, and whether it
\* threw.
Ran(d) == [dom |-> d, threw |-> FALSE]

Threw(d) == [dom |-> d, threw |-> TRUE]

-----------------------------------------------------------------------------
(* HIBOR rates: loadHiborRates *)

HIBOR_TERMS == <<"1M", "3M", "6M">>

\* Longest array drawn for hibor_rates.json and for the sentiment files.
MaxItems == 3

\* Rates drawn: zero, a decimal, a decimal written as a string, and a string
\* that is no number.
HiborRateValues == {Num(0, 1), Num(17, 4), Str("3.8125"), Str("n/a")}

\* Terms drawn: two of the three displayed (3M never comes) and one that is
\* not displayed.
HiborTermValues == {"1M", "6M", "12M"}

\* The timestamp of an item drawn follows from its term; an item whose rate
\* is no number carries none.
HiborStamp(term, rate) ==
    IF rate = Str("n/a") THEN Undefined
    ELSE CASE term = "1M" -> [y |-> 2024, m |-> 3, d |-> 1]
           [] term = "6M" -> [y |-> 2024, m |-> 2, d |-> 29]
           [] OTHER -> [y |-> 2023, m |-> 12, d |-> 31]

HiborItems ==
    {[term |-> t, rate |-> r, timestamp |-> HiborStamp(t, r)] :
        t \in HiborTermValues, r \in HiborRateValues}

SeqsUpTo(S, n) == UNION {[1..k -> S] : k \in 0..n}

HiborArrays == {Arr(s) : s \in SeqsUpTo(HiborItems, MaxItems)}

\* Array.prototype.includes on the list of terms.
IsHiborTerm(term) == \E i \in 1..Len(HIBOR_TERMS) : HIBOR_TERMS[i] = term

\* item.term && HIBOR_TERMS.includes(item.term) && item.rate
HiborItemAccepted(item) ==
    /\ Truthy(Str(item.term)) /\ IsHiborTerm(item.term)
    /\ Truthy(item.rate)

\* ratesMap after the forEach: for each term the first accepted item with
\* it, Undefined when there is none (Map.prototype.get).
RatesMapGet(elems, term) ==
    LET hits == {i \in 1..Len(elems) :
                    HiborItemAccepted(elems[i]) /\ elems[i].term = term}
    IN  IF hits = {} THEN Undefined
        ELSE elems[CHOOSE i \in hits : \A j \in hits : i <= j]

\* a > b on epoch milliseconds kept as [sec, ms]; NaN compares false.
TimeGreater(a, b) ==
    /\ a # NaN /\ b # NaN
    /\ (a.sec > b.sec \/ (a.sec = b.sec /\ a.ms > b.ms))

\* new Date(item.timestamp).getTime(): NaN for a missing timestamp.
ItemGetTime(item) ==
    IF item.timestamp = Undefined THEN NaN ELSE DateGetTime(item.timestamp)

\* hiborData.reduce(...): the latest timestamp, starting from 0.
RECURSIVE LatestTimestamp(_, _)
LatestTimestamp(elems, latest) ==
    IF elems = << >> THEN latest
    ELSE LET currentTimestamp == ItemGetTime(Head(elems))
         IN  LatestTimestamp(Tail(elems),
                             IF TimeGreater(currentTimestamp, latest)
                             THEN currentTimestamp ELSE latest)

\* formatTimestamp of the second and third script.js applied to an ISO
\* string: its first ten characters behind a fixed label.
Stamp(date) == [kind |-> "stamp", date |-> date]

\* '未知時間'
UnknownTime == Text("unknown time (zh)")

\* formattedTimestamp of loadHiborRates.
HiborFormattedTimestamp(elems) ==
    LET latestTimestamp == LatestTimestamp(elems, [sec |-> 0, ms |-> 0])
    IN  IF TimeGreater(latestTimestamp, [sec |-> 0, ms |-> 0])
        THEN Stamp(IsoDate(latestTimestamp))
        ELSE UnknownTime

\* `${rate}%` in the container layout.
HiborRateText(item) ==
    IF item = Undefined THEN Text("N/A")
    ELSE NumberToFixed(ParseFloat(item.rate), 3)

\* The rows of the container layout: one per term of HIBOR_TERMS.
HiborRows(elems) ==
    [i \in 1..Len(HIBOR_TERMS) |->
        [term |-> HIBOR_TERMS[i],
         rate |-> HiborRateText(RatesMapGet(elems, HIBOR_TERMS[i]))]]

HiborUnavailable == Text("HIBOR rates data is not available or empty.")

\* '無數據'
NoDataText == Text("no data (zh)")

\* The rate of a term in the card layout.
HiborCardText(item) ==
    IF item = Undefined THEN NoDataText
    ELSE NumberToFixed(ParseFloat(item.rate), 3)

\* formatTimestamp: a fixed text for a missing timestamp, else the label
\* followed by the timestamp (its first ten characters from the second
\* script.js on; the dates drawn have ten).
FormatTimestamp(timestamp) ==
    IF ~Truthy(timestamp) THEN UnknownTime ELSE Stamp(timestamp)

\* `${value}%`
Percent(v) == [kind |-> "percent", of |-> v]

\* '無數據或數據格式錯誤'
NoDataOrBadFormat == Text("no data or bad data format (zh)")

\* '載入失敗'
LoadFailedText == Text("load failed (zh)")

\* '暫無數據'
NoDataYetText == Text("no data yet (zh)")

\* The four card elements of the HIBOR widget with their contents.
HiborCards(d, c1m, c3m, c6m, stamp) ==
    [d EXCEPT !["hibor-1m"] = c1m, !["hibor-3m"] = c3m, !["hibor-6m"] = c6m,
              !["hibor-timestamp"] = stamp]

\* script.js:95, the body of try, after `data = await response.json()`:
\* hibor_rates.json is read as one object.
loadHiborRates_95(data, d) ==
    IF Throws(data) \/ ~Has(d, "hibor-1m") THEN Threw(d)
    ELSE Ran(HiborCards(d, Percent(Field(data, "ir_1m")),
                        Percent(Field(data, "ir_3m")),
                        Percent(Field(data, "ir_6m")),
                        FormatTimestamp(Field(data, "date"))))

\* script.js:412, after `hiborData = await fetchData(...)`: both layouts.
loadHiborRates_412(hiborData, d) ==
    IF MissingOrEmpty(hiborData)
    THEN Ran(SetIfPresent(SetIfPresent(SetIfPresent(SetIfPresent(SetIfPresent(d,
                 "hibor-rates-container", HiborUnavailable),
                 "hibor-1m", NoDataText), "hibor-3m", NoDataText),
                 "hibor-6m", NoDataText), "hibor-timestamp", NoDataOrBadFormat))
    ELSE IF hiborData.tag # "array" THEN Threw(d)
    ELSE LET formattedTimestamp == HiborFormattedTimestamp(hiborData.elems)
             d1 == SetIfPresent(d, "hibor-rates-container",
                                [kind |-> "rates", stamp |-> formattedTimestamp,
                                 rows |-> HiborRows(hiborData.elems)])
         IN  IF Has(d1, "hibor-1m")
             THEN Ran(HiborCards(d1,
                          HiborCardText(RatesMapGet(hiborData.elems, "1M")),
                          HiborCardText(RatesMapGet(hiborData.elems, "3M")),
                          HiborCardText(RatesMapGet(hiborData.elems, "6M")),
                          formattedTimestamp))
             ELSE Ran(d1)

\* Variant of script.js:1071 that shows another text when nothing was fetched.
loadHiborRates_1071_failedText(hiborData, d) ==
    IF ~Has(d, "hibor-rates-container") THEN Ran(d)
    ELSE IF hiborData = Null
         THEN Ran([d EXCEPT !["hibor-rates-container"] = LoadFailedText])
    ELSE Ran([d EXCEPT !["hibor-rates-container"] = HiborUnavailable])

\* script.js:1071, after `hiborData = await fetchData(...)`.
loadHiborRates_1071(hiborData, d) ==
    IF ~Has(d, "hibor-rates-container") THEN Ran(d)
    ELSE IF MissingOrEmpty(hiborData)
         THEN Ran([d EXCEPT !["hibor-rates-container"] = HiborUnavailable])
    ELSE IF hiborData.tag # "array" THEN Threw(d)
    ELSE Ran([d EXCEPT !["hibor-rates-container"] =
                  [kind |-> "rates",
                   stamp |-> HiborFormattedTimestamp(hiborData.elems),
                   rows |-> HiborRows(hiborData.elems)]])

\* README.md:215: hiborMap and latestTimestamp after the forEach; a later
\* item with the same term takes the place of an earlier one.
RECURSIVE ReadmeHiborMap(_, _)
ReadmeHiborMap(elems, acc) ==
    IF elems = << >> THEN acc
    ELSE LET item == Head(elems)
             take == Truthy(Str(item.term)) /\ Truthy(item.rate)
         IN  ReadmeHiborMap(Tail(elems),
                 IF ~take THEN acc
                 ELSE [map |-> [t \in DOMAIN acc.map \cup {item.term} |->
                                   IF t = item.term THEN item.rate ELSE acc.map[t]],
                       latestTimestamp |-> IF Truthy(item.timestamp)
                                           THEN item.timestamp
                                           ELSE acc.latestTimestamp])

\* hiborMap[term]
ReadmeHiborGet(map, term) == IF term \in DOMAIN map THEN map[term] ELSE Undefined

\* README.md:215, the body of try, after `data = await response.json()`.
loadHiborRates_README(data, d) ==
    LET elems == IF data.tag = "array" THEN data.elems ELSE << >>
        acc   == ReadmeHiborMap(elems, [map |-> << >>,
                                        latestTimestamp |-> Str("unknown time (zh)")])
    IN  IF ~Has(d, "hibor-1m") THEN Threw(d)
        ELSE IF Truthy(ReadmeHiborGet(acc.map, "1M"))
             THEN Ran(HiborCards(d,
                     NumberToFixed(ParseFloat(ReadmeHiborGet(acc.map, "1M")), 2),
                     NumberToFixed(ParseFloat(ReadmeHiborGet(acc.map, "3M")), 2),
                     NumberToFixed(ParseFloat(ReadmeHiborGet(acc.map, "6M")), 2),
                     FormatTimestamp(acc.latestTimestamp)))
        ELSE Ran(HiborCards(d, NoDataText, NoDataText, NoDataText, NoDataOrBadFormat))

\* README.md:215, the catch block.
loadHiborRates_README_catch(d) ==
    IF ~Has(d, "hibor-timestamp") THEN Threw(d)
    ELSE Ran([d EXCEPT !["hibor-timestamp"] = LoadFailedText])

-----------------------------------------------------------------------------
(* Fear & Greed index: loadFearGreedIndex *)

\* The sentiment labels, as their characters.
ExtremeFear == <<"E", "x", "t", "r", "e", "m", "e", " ", "F", "e", "a", "r">>

Fear == <<"F", "e", "a", "r">>

Neutral == <<"N", "e", "u", "t", "r", "a", "l">>

Greed == <<"G", "r", "e", "e", "d">>

ExtremeGreed == <<"E", "x", "t", "r", "e", "m", "e", " ", "G", "r", "e", "e", "d">>

\* A label that is none of the five.
Panic == <<"P", "a", "n", "i", "c">>

SentimentLabels == {ExtremeFear, Fear, Neutral, Greed, ExtremeGreed, Panic}

\* The index value and the date that come with a label in the files drawn.
SentimentValue(label) ==
    CASE label = ExtremeFear -> Num(12, 1)
      [] label = Fear -> Num(38, 1)
      [] label = Neutral -> Num(50, 1)
      [] label = Greed -> Num(64, 1)
      [] label = ExtremeGreed -> Num(91, 1)
      [] OTHER -> Num(0, 1)

SentimentDate(label) == [y |-> 2024, m |-> 3, d |-> Len(label)]

\* market_sentiment_history.json: [{date, value, sentiment}, ...]
SentimentItems ==
    {[date |-> SentimentDate(l), value |-> SentimentValue(l),
      sentiment |-> Chars(l)] :
        l \in SentimentLabels}

SentimentArrays == {Arr(s) : s \in SeqsUpTo(SentimentItems, MaxItems)}

\* colorClass of script.js:690 and script.js:1374, the tests in the order of
\* the code.
SentimentColorClass(sentiment) ==
    IF Includes(sentiment.chars, ExtremeFear) THEN "bg-danger"
    ELSE IF Includes(sentiment.chars, Fear) THEN "bg-warning"
    ELSE IF Includes(sentiment.chars, Neutral) THEN "bg-info"
    ELSE IF Includes(sentiment.chars, Greed) THEN "bg-success"
    ELSE IF Includes(sentiment.chars, ExtremeGreed) THEN "bg-primary"
    ELSE "bg-secondary"

\* part_001:43 getStatusClass, on the lower-cased status.
getStatusClass(status) ==
    IF status = Undefined THEN ""
    ELSE LET lowerStatus == ToLowerCase(status.chars)
         IN  IF Includes(lowerStatus, ToLowerCase(ExtremeFear)) THEN "extreme-fear"
             ELSE IF Includes(lowerStatus, ToLowerCase(Fear)) THEN "fear"
             ELSE IF Includes(lowerStatus, ToLowerCase(Neutral)) THEN "neutral"
             ELSE IF Includes(lowerStatus, ToLowerCase(ExtremeGreed)) THEN "extreme-greed"
             ELSE IF Includes(lowerStatus, ToLowerCase(Greed)) THEN "greed"
             ELSE ""

FngUnavailable == Text("Fear & Greed Index data is not available or empty.")

\* sentimentData.map(item => ({x: new Date(item.date).getTime(), y: item.value}))
FngSeries(elems) ==
    [i \in 1..Len(elems) |-> [x |-> DateGetTime(elems[i].date), y |-> elems[i].value]]

\* The card and the chart written into fear-greed-container.
FngCard(elems) ==
    LET latest == elems[Len(elems)]
    IN  [kind |-> "fng", colorClass |-> SentimentColorClass(latest.sentiment),
         value |-> latest.value, sentiment |-> latest.sentiment,
         stamp |-> FormatTimestamp(latest.date), chart |-> FngSeries(elems)]

\* script.js:671, after `sentimentData = await fetchData(...)`: both layouts.
loadFearGreedIndex_671(sentimentData, d) ==
    IF MissingOrEmpty(sentimentData)
    THEN Ran(SetIfPresent(SetIfPresent(d, "fear-greed-container", FngUnavailable),
                          "fng-sentiment", NoDataText))
    ELSE IF sentimentData.tag # "array" THEN Threw(d)
    ELSE LET latest == sentimentData.elems[Len(sentimentData.elems)]
         IN  Ran(SetIfPresent(SetIfPresent(SetIfPresent(SetIfPresent(d,
                     "fear-greed-container", FngCard(sentimentData.elems)),
                     "fng-value", latest.value),
                     "fng-sentiment", latest.sentiment),
                     "fng-timestamp", FormatTimestamp(latest.date)))

\* script.js:1357, after `sentimentData = await fetchData(...)`.
loadFearGreedIndex_1357(sentimentData, d) ==
    IF ~Has(d, "fear-greed-container") THEN Ran(d)
    ELSE IF MissingOrEmpty(sentimentData)
         THEN Ran([d EXCEPT !["fear-greed-container"] = FngUnavailable])
    ELSE IF sentimentData.tag # "array" THEN Threw(d)
    ELSE Ran([d EXCEPT !["fear-greed-container"] = FngCard(sentimentData.elems)])

\* market_sentiment.json of part_001: [{value, status, timestamp}, ...]; the
\* status may be missing.
Part001SentimentItems ==
    {[value |-> SentimentValue(l), status |-> Chars(l),
      timestamp |-> SentimentDate(l)] :
        l \in SentimentLabels}
      \cup {[value |-> Num(50, 1), status |-> Undefined,
             timestamp |-> [y |-> 2024, m |-> 3, d |-> 1]]}

Part001SentimentArrays == {Arr(s) : s \in SeqsUpTo(Part001SentimentItems, MaxItems)}

\* formatTimestamp of part_001: '--' for a missing timestamp, else the local
\* date and time as the browser's locale writes it.
FormatTimestampLocale(timestamp) ==
    IF ~Truthy(timestamp) THEN Text("--") ELSE [kind |-> "localeTime", of |-> timestamp]

\* '未知'
UnknownText == Text("unknown (zh)")

\* part_001:19, the body of try, after `data = await response.json()`.
loadFearGreedIndex_part001(data, d) ==
    IF ~Has(d, "fearGreedIndex") THEN Threw(d)
    ELSE IF PresentAndNonEmpty(data)
         THEN LET latest == data.elems[1]
              IN  Ran([d EXCEPT
                       !["fearGreedIndex"] = [kind |-> "value", of |-> latest.value],
                       !["fearGreedStatus"] =
                           [kind |-> "status",
                            text |-> IF Truthy(latest.status) THEN latest.status
                                     ELSE UnknownText,
                            className |-> getStatusClass(latest.status)],
                       !["fearGreedTimestamp"] = FormatTimestampLocale(latest.timestamp)])
    ELSE Ran([d EXCEPT !["fearGreedIndex"] = NoDataYetText])

\* part_001:19, the catch block.
loadFearGreedIndex_part001_catch(d) ==
    IF ~Has(d, "fearGreedIndex") THEN Threw(d)
    ELSE Ran([d EXCEPT !["fearGreedIndex"] = LoadFailedText])

-----------------------------------------------------------------------------
(* Market cards of the first script.js: loadMarketData *)

\* Keys of market_data_history.json.
MarketSymbols == {"SPY", "QQQ", "DIA", "^VIX", "^HSI", "^N225"}

\* symbol.toLowerCase().replace('^', '')
CleanSymbol(symbol) ==
    CASE symbol = "SPY" -> "spy" [] symbol = "QQQ" -> "qqq" [] symbol = "DIA" -> "dia"
      [] symbol = "^VIX" -> "vix" [] symbol = "^HSI" -> "hsi" [] symbol = "^N225" -> "n225"

ScenarioA == << Num(100, 1), Num(110, 1), Num(90, 1) >>

\* market_data_history.json with every symbol, and with SPY alone next to an
\* empty QQQ.
FullMarket ==
    [tag |-> "object",
     fields |-> [sym \in MarketSymbols |->
                    MkHistory(IF sym = "SPY" THEN 3 ELSE 2, ScenarioA)]]

PartialMarket ==
    [tag |-> "object",
     fields |-> [sym \in {"SPY", "QQQ"} |->
                    IF sym = "SPY" THEN MkHistory(3, ScenarioA) ELSE Arr(<< >>)]]

MarketObjects == {FullMarket, PartialMarket}

\* x > 0 and x < 0 on numbers.
Positive(x) == x.k \in {"num", "inf"} /\ x.n > 0

Negative(x) == x.k \in {"num", "inf"} /\ x.n < 0

\* renderIndexCard: what one element of the card of a symbol shows.
IndexCardContent(part, data, before) ==
    IF MissingOrEmpty(data)
    THEN CASE part = "value" -> Text("--")
           [] part = "change" -> [kind |-> "change", text |-> NoDataText,
                                  plus |-> FALSE, className |-> "neutral"]
           [] OTHER -> before
    ELSE LET latest == data.elems[Len(data.elems)]
             change == latest.change_percent
         IN  CASE part = "value" -> NumberToFixed(latest.close, 2)
               [] part = "change" ->
                    [kind |-> "change", text |-> NumberToFixed(change, 2),
                     plus |-> Positive(change),
                     className |-> IF Positive(change) THEN "positive"
                                   ELSE IF Negative(change) THEN "negative"
                                   ELSE "neutral"]
               [] OTHER ->
                    [kind |-> "chart",
                     series |-> [i \in 1..Len(data.elems) |-> data.elems[i].close],
                     color |-> IF Negative(change) THEN "#F44336" ELSE "#4CAF50"]

\* script.js:203, the body of try, after `marketData = await
\* response.json()`: six calls of renderIndexCard.
loadMarketData_203(marketData, d) ==
    IF Throws(marketData) \/ ~Has(d, "spy-value") THEN Threw(d)
    ELSE Ran([id \in DOMAIN d |->
                 IF \E sym \in MarketSymbols, part \in {"value", "change", "chart"} :
                        id = CardId(CleanSymbol(sym), part)
                 THEN LET sp == CHOOSE sp \in MarketSymbols \X {"value", "change", "chart"} :
                                    id = CardId(CleanSymbol(sp[1]), sp[2])
                      IN  IndexCardContent(sp[2], Field(marketData, sp[1]), d[id])
                 ELSE d[id]])

-----------------------------------------------------------------------------
(* The list widgets of part_001: loadHiborRates, loadMarketBreadth,
   loadFundFlows *)

Part001ListLoaders ==
    {"loadHiborRates@part_001:55", "loadMarketBreadth@part_001:82",
     "loadFundFlows@part_001:111"}

\* The element a list loader fills and the element of its timestamp.
Part001ListId(fn) ==
    CASE fn = "loadHiborRates@part_001:55" -> "hiborRates"
      [] fn = "loadMarketBreadth@part_001:82" -> "marketBreadth"
      [] fn = "loadFundFlows@part_001:111" -> "fundFlows"

Part001StampId(fn) ==
    CASE fn = "loadHiborRates@part_001:55" -> "hiborTimestamp"
      [] fn = "loadMarketBreadth@part_001:82" -> "marketBreadthTimestamp"
      [] fn = "loadFundFlows@part_001:111" -> "fundFlowsTimestamp"

\* A value that has the methods of a number.
IsNumber(v) == "k" \in DOMAIN v

\* The file of a list loader, well formed: one item.
Part001ListSample(fn) ==
    CASE fn = "loadHiborRates@part_001:55" ->
             Arr(<<[term |-> Str("1M"), rate |-> Num(17, 4),
                    timestamp |-> [y |-> 2024, m |-> 3, d |-> 1]]>>)
      [] fn = "loadMarketBreadth@part_001:82" ->
             Arr(<<[metric_name |-> Str("advancers"), value |-> Num(-3, 2),
                    timestamp |-> [y |-> 2024, m |-> 3, d |-> 1]]>>)
      [] fn = "loadFundFlows@part_001:111" ->
             Arr(<<[sector |-> Str("tech"), amount |-> Num(1200, 1),
                    flow_type |-> Str("inflow"),
                    timestamp |-> [y |-> 2024, m |-> 3, d |-> 1]]>>)

\* The row of one item; reading a property of an item that is null, or
\* calling toFixed / toLocaleString on what is no number, throws.
Part001RowThrows(fn, item) ==
    \/ Throws(item)
    \/ fn = "loadHiborRates@part_001:55" /\ ~IsNumber(Field(item, "rate"))
    \/ fn = "loadFundFlows@part_001:111" /\ Throws(Field(item, "amount"))

Part001Row(fn, item) ==
    CASE fn = "loadHiborRates@part_001:55" ->
             [term |-> Field(item, "term"), rate |-> NumberToFixed(item.rate, 2)]
      [] fn = "loadMarketBreadth@part_001:82" ->
             [name |-> Field(item, "metric_name"), value |-> Field(item, "value"),
              valueClass |-> IF IsNumber(Field(item, "value")) /\ item.value.n >= 0
                             THEN "positive" ELSE "negative"]
      [] fn = "loadFundFlows@part_001:111" ->
             [sector |-> Field(item, "sector"), amount |-> item.amount,
              flow_type |-> Field(item, "flow_type")]

\* The body of try of a list loader, after `data = await response.json()`.
Part001ListLoad(fn, data, d) ==
    IF ~Has(d, Part001ListId(fn)) THEN Threw(d)
    ELSE IF PresentAndNonEmpty(data)
         THEN (IF \E k \in 1..Len(data.elems) : Part001RowThrows(fn, data.elems[k])
               THEN Threw(d)
               ELSE Ran([d EXCEPT
                         ![Part001ListId(fn)] =
                             [kind |-> "list",
                              rows |-> [k \in 1..Len(data.elems) |->
                                           Part001Row(fn, data.elems[k])]],
                         ![Part001StampId(fn)] =
                             FormatTimestampLocale(Field(data.elems[1], "timestamp"))]))
    ELSE Ran([d EXCEPT ![Part001ListId(fn)] = NoDataYetText])

\* The catch block of a list loader.
Part001ListCatch(fn, d) ==
    IF ~Has(d, Part001ListId(fn)) THEN Threw(d)
    ELSE Ran([d EXCEPT ![Part001ListId(fn)] = LoadFailedText])

-----------------------------------------------------------------------------
(* Loaders as asynchronous routines *)

Loaders ==
    {"loadHiborRates@script.js:95", "loadMarketData@script.js:203",
     "loadHiborRates@script.js:412", "loadFearGreedIndex@script.js:671",
     "loadHiborRates@script.js:1071", "loadFearGreedIndex@script.js:1357",
     "loadFearGreedIndex@part_001:19", "loadHiborRates@README.md:215"}
      \cup Part001ListLoaders

\* The copy of fetchData a loader calls, "fetch" for a loader that calls
\* fetch() itself inside try / catch.
Via(fn) ==
    CASE fn \in {"loadHiborRates@script.js:412", "loadFearGreedIndex@script.js:671"}
             -> "script.js:266"
      [] fn \in {"loadHiborRates@script.js:1071", "loadFearGreedIndex@script.js:1357"}
             -> "script.js:849"
      [] OTHER -> "fetch"

\* The file a loader fetches.
PathOf(fn) ==
    CASE fn \in {"loadHiborRates@script.js:95", "loadHiborRates@script.js:412",
                 "loadHiborRates@script.js:1071", "loadHiborRates@README.md:215"}
             -> "hibor_rates.json"
      [] fn = "loadMarketData@script.js:203" -> "market_data_history.json"
      [] fn = "loadFearGreedIndex@part_001:19" -> "market_sentiment.json"
      [] fn = "loadHiborRates@part_001:55" -> "hibor_rates.json"
      [] fn = "loadMarketBreadth@part_001:82" -> "market_breadth.json"
      [] fn = "loadFundFlows@part_001:111" -> "fund_flows.json"
      [] OTHER -> "market_sentiment_history.json"

\* The layouts of the page a loader is written for.
LayoutsOf(fn) ==
    CASE fn \in {"loadHiborRates@script.js:95", "loadMarketData@script.js:203",
                 "loadHiborRates@README.md:215"} -> {CardLayout}
      [] fn \in {"loadHiborRates@script.js:412", "loadFearGreedIndex@script.js:671"}
             -> {CardLayout, ContainerLayout}
      [] fn \in {"loadFearGreedIndex@part_001:19"} \cup Part001ListLoaders
             -> {Part001Layout}
      [] OTHER -> {ContainerLayout}

\* hibor_rates.json as the first script.js reads it: one object.
HiborObject ==
    [tag |-> "object",
     fields |-> [ir_1m |-> Num(17, 4), ir_3m |-> Num(9, 2), ir_6m |-> Num(19, 4),
                 date |-> [y |-> 2024, m |-> 3, d |-> 1]]]

\* The JSON values a loader may be handed by a 200 response: those of its
\* file, and null, {} and [] whatever the file.
LoaderData(fn) ==
    {Null, EmptyObject, Arr(<< >>)} \cup
    (CASE fn = "loadHiborRates@script.js:95" -> {HiborObject}
       [] fn = "loadMarketData@script.js:203" -> MarketObjects
       [] fn \in {"loadFearGreedIndex@script.js:671", "loadFearGreedIndex@script.js:1357"}
              -> SentimentArrays
       [] fn = "loadFearGreedIndex@part_001:19" -> Part001SentimentArrays
       [] fn \in Part001ListLoaders -> {Part001ListSample(fn), Arr(<<Null>>)}
       [] OTHER -> HiborArrays)

InvalidBody == [valid |-> FALSE, json |-> Null]

ValidBody(v) == [valid |-> TRUE, json |-> v]

Response(status, body) == [kind |-> "response", status |-> status, body |-> body]

NetReject == [kind |-> "reject", status |-> 0, body |-> InvalidBody]

\* Statuses of the responses that are not ok.
FailingStatuses == {404, 500}

\* How the fetch of a loader may settle: a rejection, a 200 response whose
\* body is no JSON or one of the values above, or an error status with a
\* body that is no JSON or is {}.
LoaderNets(fn) ==
    {NetReject, Response(200, InvalidBody)}
      \cup {Response(200, ValidBody(v)) : v \in LoaderData(fn)}
      \cup {Response(st, b) : st \in FailingStatuses,
                              b \in {InvalidBody, ValidBody(EmptyObject)}}

\* What a loader does with the value it obtained: for a loader that calls
\* fetch() itself, the rest of its try block.
LoaderTry(fn, data, d) ==
    CASE fn = "loadHiborRates@script.js:95" -> loadHiborRates_95(data, d)
      [] fn = "loadMarketData@script.js:203" -> loadMarketData_203(data, d)
      [] fn = "loadHiborRates@script.js:412" -> loadHiborRates_412(data, d)
      [] fn = "loadFearGreedIndex@script.js:671" -> loadFearGreedIndex_671(data, d)
      [] fn = "loadHiborRates@script.js:1071" -> loadHiborRates_1071(data, d)
      [] fn = "loadFearGreedIndex@script.js:1357" -> loadFearGreedIndex_1357(data, d)
      [] fn = "loadFearGreedIndex@part_001:19" -> loadFearGreedIndex_part001(data, d)
      [] fn \in Part001ListLoaders -> Part001ListLoad(fn, data, d)
      [] fn = "loadHiborRates@README.md:215" -> loadHiborRates_README(data, d)

\* The catch block of a loader that calls fetch() itself: those of the first
\* script.js only log.
LoaderCatch(fn, d) ==
    CASE fn = "loadFearGreedIndex@part_001:19" -> loadFearGreedIndex_part001_catch(d)
      [] fn \in Part001ListLoaders -> Part001ListCatch(fn, d)
      [] fn = "loadHiborRates@README.md:215" -> loadHiborRates_README_catch(d)
      [] OTHER -> Ran(d)

\* The try block from the parsed value on, with its catch block.
LoaderTryCatch(fn, data, d) ==
    LET r == LoaderTry(fn, data, d)
    IN  IF r.threw THEN LoaderCatch(fn, r.dom) ELSE r

pageFrame == <<calcVars, gwVars>>

\* An invocation of an asynchronous routine that has just issued its fetch:
\* the routine, its argument, what started it (the page load or a click),
\* where it stands, what its fetch delivered, and whether it is the latest
\* invocation of its routine to have run to its end.
NewTask(fn, arg, by) ==
    [fn |-> fn, arg |-> arg, by |-> by, pc |-> "awaitFetch", net |-> NoValue,
     last |-> FALSE]

\* What an invocation has come to once it has run to its end.
Finished(t, net, outcome) ==
    [t EXCEPT !.pc = IF outcome.threw THEN "threw" ELSE "done", !.net = net,
              !.last = TRUE]

\* The invocations once invocation i has run to its end.
EndTask(ts, i, net, outcome) ==
    [j \in DOMAIN ts |->
        IF j = i THEN Finished(ts[i], net, outcome)
        ELSE IF ts[j].fn = ts[i].fn THEN [ts[j] EXCEPT !.last = FALSE]
        ELSE ts[j]]

\* A loader after its fetch has settled: it waits for response.json(), or it
\* has its outcome (then pc is "done").
LoaderOnFetch(fn, net, d) ==
    IF Via(fn) = "fetch"
    THEN (IF net.kind = "reject" THEN [pc |-> "done", outcome |-> LoaderCatch(fn, d)]
          ELSE [pc |-> "awaitJson", outcome |-> Ran(d)])
    ELSE LET r == fetchDataOnFetch(Via(fn), net)
         IN  IF r.pc # "done" THEN [pc |-> r.pc, outcome |-> Ran(d)]
             ELSE IF r.result.kind = "rejected" THEN [pc |-> "done", outcome |-> Threw(d)]
             ELSE [pc |-> "done", outcome |-> LoaderTry(fn, r.result.value, d)]

\* A loader after response.json() has settled.
LoaderOnJson(fn, body, d) ==
    IF Via(fn) = "fetch"
    THEN (IF body.valid THEN LoaderTryCatch(fn, body.json, d) ELSE LoaderCatch(fn, d))
    ELSE LoaderTry(fn, fetchDataOnJson(Via(fn), body).value, d)

\* A loader is called: it issues its fetch and waits.
LoadCall(fn) ==
    /\ page = "loader"
    /\ tasks = << >>
    /\ DOMAIN dom \in LayoutsOf(fn)
    /\ tasks' = Append(tasks, NewTask(fn, "", "load"))
    /\ fetchLog' = Append(fetchLog, PathOf(fn))
    /\ UNCHANGED <<page, globalMarketsChart, orphanCharts,
                   dom, fullMarketData, darkMode, storage,
                   handlers, timers>>
    /\ UNCHANGED pageFrame

\* The fetch of invocation i of a loader settles, in one of the ways nets.
LoadFetchSettles(i, nets) ==
    /\ tasks[i].fn \in Loaders
    /\ tasks[i].pc = "awaitFetch"
    /\ \E net \in nets :
         LET r == LoaderOnFetch(tasks[i].fn, net, dom)
         IN  IF r.pc = "done"
             THEN /\ tasks' = EndTask(tasks, i, net, r.outcome)
                  /\ dom' = r.outcome.dom
             ELSE /\ tasks' = [tasks EXCEPT ![i].pc = r.pc, ![i].net = net]
                  /\ UNCHANGED dom
    /\ UNCHANGED <<page, globalMarketsChart, orphanCharts,
                   fullMarketData, fetchLog, darkMode, storage,
                   handlers, timers>>
    /\ UNCHANGED pageFrame

\* response.json() of invocation i of a loader settles.
LoadJsonSettles(i) ==
    /\ tasks[i].fn \in Loaders
    /\ tasks[i].pc = "awaitJson"
    /\ LET outcome == LoaderOnJson(tasks[i].fn, tasks[i].net.body, dom)
       IN  /\ tasks' = EndTask(tasks, i, tasks[i].net, outcome)
           /\ dom' = outcome.dom
    /\ UNCHANGED <<page, globalMarketsChart, orphanCharts,
                   fullMarketData, fetchLog, darkMode, storage,
                   handlers, timers>>
    /\ UNCHANGED pageFrame

\* A page on which one loader is to run: one of the layouts, as shipped.
InitLoad ==
    /\ CalcIdle /\ GwIdle
    /\ page = "loader"
    /\ dom \in {InitialDom(CardLayout), InitialDom(ContainerLayout),
                InitialDom(Part001Layout)}
    /\ tasks = << >>
    /\ fullMarketData = EmptyObject
    /\ fetchLog = << >>
    /\ darkMode = FALSE
    /\ storage = << >>
    /\ handlers = {}
    /\ timers = << >>
    /\ globalMarketsChart = Null
    /\ orphanCharts = {}

NextLoad ==
    \/ \E fn \in Loaders : LoadCall(fn)
    \/ \E i \in 1..Len(tasks) : LoadFetchSettles(i, LoaderNets(tasks[i].fn))
    \/ \E i \in 1..Len(tasks) : LoadJsonSettles(i)

SpecLoad == InitLoad /\ [][NextLoad]_vars

-----------------------------------------------------------------------------
(* Claims about the loaders *)

\* The fetch failed: in transport, by its status, or in parsing.
FetchFailed(net) ==
    \/ net.kind = "reject"
    \/ net.status \notin 200..299
    \/ ~net.body.valid

\* The invocation has run to its end.
Ended(t) == t.pc \in {"done", "threw"}

\* The document a loader leaves, starting from the page as shipped, when the
\* file was fetched and holds the empty array.
DomForEmpty(fn, layout) ==
    LoaderOnJson(fn, ValidBody(Arr(<< >>)), InitialDom(layout)).dom

\* C12 as stated: every loader, after a failed fetch, leaves the page as it
\* leaves it after fetching an empty array.
C12_EmptyAndFailedAlikeEverywhere ==
    \A i \in 1..Len(tasks) :
        (page = "loader" /\ Ended(tasks[i]) /\ FetchFailed(tasks[i].net))
            => dom = DomForEmpty(tasks[i].fn, DOMAIN dom)

\* C12, amended: the loaders of script.js that go through fetchData leave the
\* page after a failed fetch exactly as after fetching an empty array; the
\* loaders of part_001 and README.md, which call fetch() themselves, show
\* their load-failed text when the fetch rejects or the body does not parse,
\* which is not what they show for an empty array.
C12_EmptyAndFailedAlike ==
    \A i \in 1..Len(tasks) :
        (page = "loader" /\ Ended(tasks[i]) /\ FetchFailed(tasks[i].net))
            => /\ Via(tasks[i].fn) # "fetch"
                    => dom = DomForEmpty(tasks[i].fn, DOMAIN dom)
               /\ (/\ tasks[i].fn \in {"loadFearGreedIndex@part_001:19",
                                       "loadHiborRates@README.md:215"}
                   /\ (tasks[i].net.kind = "reject" \/ ~tasks[i].net.body.valid))
                    => /\ dom # DomForEmpty(tasks[i].fn, DOMAIN dom)
                       /\ LoadFailedText \in {dom[id] : id \in DOMAIN dom}

\* loadHiborRates of the third script.js has met a 404 and shows the text it
\* shows for an empty file.
C12_Witness ==
    /\ page = "loader" /\ Len(tasks) = 1
    /\ tasks[1].fn = "loadHiborRates@script.js:1071" /\ tasks[1].pc = "done"
    /\ tasks[1].net.kind = "response" /\ tasks[1].net.status = 404
    /\ dom["hibor-rates-container"] = HiborUnavailable

-----------------------------------------------------------------------------
(* The market sections of the third script.js *)

\* Object.keys(v).length, for an object.
KeyCount(v) == Cardinality(DOMAIN v.fields)

\* `v && Object.keys(v).length > 0`, for null or an object.
NonEmptyObject(v) == Truthy(v) /\ KeyCount(v) > 0

\* {...a, ...b}
Spread(a, b) ==
    [tag |-> "object",
     fields |-> [key \in DOMAIN a.fields \cup DOMAIN b.fields |->
                    IF key \in DOMAIN b.fields THEN b.fields[key] ELSE a.fields[key]]]

BreadthSymbols == <<"SPY", "QQQ", "DIA">>

GlobalSymbols == <<"VIX", "HSI", "N225">>

\* The period and the chart type buttons of a section.
FilterPeriods == {"ALL", "1M", "3M", "6M"}

ChartTypes == {"price", "percent"}

\* market_data_history.json as the third script.js reads it: a file with
\* SPY, an empty QQQ and VIX; and a file in which the history of SPY holds
\* null where a point should be.
DashPartialMarket ==
    [tag |-> "object",
     fields |-> [sym \in {"SPY", "QQQ", "VIX"} |->
                    IF sym = "QQQ" THEN Arr(<< >>) ELSE MkHistory(3, ScenarioA)]]

DashMalformedMarket ==
    [tag |-> "object",
     fields |-> [sym \in {"SPY", "VIX"} |->
                    IF sym = "SPY" THEN Arr(<<Null>>) ELSE MkHistory(3, ScenarioA)]]

\* No chart has been drawn in the chart element of a card.
NoChart == [kind |-> "none"]

\* The card of one symbol: its figures, the "not found" card, or the
\* TypeError of reading a property of a point that is null.
CardOfChange(latest, change) ==
    [kind |-> "card",
     close |-> NumberToFixed(ParseFloat(latest.close), 2),
     change |-> change,
     changeClass |-> IF change.kind = "fixed" /\ change.scaled >= 0
                     THEN "text-success" ELSE "text-danger",
     chart |-> NoChart]

CardOfLatest(latest) ==
    IF Throws(latest) THEN [kind |-> "throw"]
    ELSE CardOfChange(latest, NumberToFixed(ParseFloat(latest.change_percent), 2))

\* Variant that reads the first point of the window instead of the last.
CardOfHistory_first(windowedHistory) ==
    IF windowedHistory.tag = "array" /\ Len(windowedHistory.elems) > 0
    THEN CardOfLatest(windowedHistory.elems[1])
    ELSE [kind |-> "notFound"]

CardOfHistory(windowedHistory) ==
    IF windowedHistory.tag = "array" /\ Len(windowedHistory.elems) > 0
    THEN CardOfLatest(windowedHistory.elems[Len(windowedHistory.elems)])
    ELSE [kind |-> "notFound"]

SectionCard(market, symbol, p, chartType) ==
    CardOfHistory(filterDataByPeriod(Field(market, symbol), p).ret)

\* seriesData of one symbol.
SeriesOfHistory(windowedHistory, chartType) ==
    IF chartType = "percent"
    THEN calculateCumulativeChange(windowedHistory).ret.elems
    ELSE [i \in 1..Len(windowedHistory.elems) |->
             [x |-> DateGetTime(windowedHistory.elems[i].date),
              y |-> windowedHistory.elems[i].close]]

\* Variant whose cumulative series is computed over the full history.
SectionSeries_fullHistory(market, symbol, p, chartType) ==
    IF chartType = "percent"
    THEN SeriesOfHistory(Field(market, symbol), chartType)
    ELSE SeriesOfHistory(filterDataByPeriod(Field(market, symbol), p).ret, chartType)

SectionSeries(market, symbol, p, chartType) ==
    SeriesOfHistory(filterDataByPeriod(Field(market, symbol), p).ret, chartType)

\* The callback that setTimeout queues for a symbol that has a card.
TimerOfCard(container, symbol, card, data, chartType) ==
    IF card.kind # "card" THEN << >>
    ELSE << [container |-> container, symbol |-> symbol, data |-> data,
             colorClass |-> card.changeClass,
             isPercentage |-> chartType = "percent"] >>

\* The callbacks that setTimeout queues for the symbols first..last.
RECURSIVE SectionTimers(_, _, _, _, _, _, _)
SectionTimers(container, symbols, market, p, chartType, first, last) ==
    IF first > last THEN << >>
    ELSE TimerOfCard(container, symbols[first],
                     SectionCard(market, symbols[first], p, chartType),
                     SectionSeries(market, symbols[first], p, chartType), chartType)
           \o SectionTimers(container, symbols, market, p, chartType, first + 1, last)

\* The labels of the period buttons and the keys of the chart type buttons,
\* in the order the render writes them.
PeriodLabels == <<"ALL", "1M", "3M", "6M">>

ChartTypeKeys == <<"price", "percent">>

\* Variant whose period buttons call the render without the chart type, so
\* that a period click falls back to 'price'.
FilterButtons_resetType(p, chartType) ==
    [periodButtons |->
        [i \in 1..Len(PeriodLabels) |->
            [label |-> PeriodLabels[i], active |-> PeriodLabels[i] = p,
             onclick |-> [period |-> PeriodLabels[i], chartType |-> "price"]]],
     typeButtons |->
        [i \in 1..Len(ChartTypeKeys) |->
            [key |-> ChartTypeKeys[i], active |-> ChartTypeKeys[i] = chartType,
             onclick |-> [period |-> p, chartType |-> ChartTypeKeys[i]]]]]

\* filterHtml: one button per period and one per chart type.  A button is
\* active (btn-primary, btn-secondary) when it is the one rendered, and its
\* onclick calls the render with its own period or chart type and with the
\* other argument as rendered.
FilterButtons(p, chartType) ==
    [periodButtons |->
        [i \in 1..Len(PeriodLabels) |->
            [label |-> PeriodLabels[i], active |-> PeriodLabels[i] = p,
             onclick |-> [period |-> PeriodLabels[i], chartType |-> chartType]]],
     typeButtons |->
        [i \in 1..Len(ChartTypeKeys) |->
            [key |-> ChartTypeKeys[i], active |-> ChartTypeKeys[i] = chartType,
             onclick |-> [period |-> p, chartType |-> ChartTypeKeys[i]]]]]

\* The first symbol whose card throws.
FirstThrow(cards) ==
    CHOOSE i \in DOMAIN cards :
        /\ cards[i].kind = "throw"
        /\ \A j \in DOMAIN cards : cards[j].kind = "throw" => i <= j

\* A section from the cards of its symbols: the arguments it was rendered
\* with, its buttons and its cards.  A throw inside the forEach leaves the
\* container as it was and the callbacks of the symbols before it queued.
SectionOfCards(container, symbols, market, p, chartType, d, cards) ==
    IF \E i \in DOMAIN cards : cards[i].kind = "throw"
    THEN [dom |-> d,
          queued |-> SectionTimers(container, symbols, market, p, chartType, 1,
                                   FirstThrow(cards) - 1),
          threw |-> TRUE]
    ELSE [dom |-> [d EXCEPT ![container] =
                      [kind |-> "section", period |-> p, chartType |-> chartType,
                       periodButtons |-> FilterButtons(p, chartType).periodButtons,
                       typeButtons |-> FilterButtons(p, chartType).typeButtons,
                       cards |-> [i \in 1..Len(symbols) |->
                                     [symbol |-> symbols[i], card |-> cards[i]]]]],
          queued |-> SectionTimers(container, symbols, market, p, chartType,
                                   1, Len(symbols)),
          threw |-> FALSE]

\* renderMarketBreadth / renderGlobalMarkets: the document after the call,
\* the callbacks queued, and whether the call threw.
RenderSection(container, symbols, unavailable, market, p, chartType, d) ==
    IF ~Has(d, container) THEN [dom |-> d, queued |-> << >>, threw |-> FALSE]
    ELSE IF ~NonEmptyObject(market)
         THEN [dom |-> [d EXCEPT ![container] = unavailable], queued |-> << >>,
               threw |-> FALSE]
    ELSE SectionOfCards(container, symbols, market, p, chartType, d,
                        [i \in 1..Len(symbols) |->
                            SectionCard(market, symbols[i], p, chartType)])

BreadthUnavailable ==
    Text("Market Breadth data is not available or empty. Please run sync_data.py.")

GlobalUnavailable ==
    Text("Global Markets data is not available or empty. Please run sync_data.py.")

renderMarketBreadth(p, chartType, market, d) ==
    RenderSection("market-breadth-container", BreadthSymbols, BreadthUnavailable,
                  market, p, chartType, d)

renderGlobalMarkets(p, chartType, market, d) ==
    RenderSection("global-markets-container", GlobalSymbols, GlobalUnavailable,
                  market, p, chartType, d)

\* The two renders one after the other, as initDashboard and toggleTheme
\* call them: the second is not reached when the first throws.
RenderJoin(b, g) ==
    [dom |-> g.dom, queued |-> b.queued \o g.queued, threw |-> g.threw]

RenderSecond(b, pg, tg, market) ==
    IF b.threw THEN b ELSE RenderJoin(b, renderGlobalMarkets(pg, tg, market, b.dom))

RenderBoth(pb, tb, pg, tg, market, d) ==
    RenderSecond(renderMarketBreadth(pb, tb, market, d), pg, tg, market)

\* renderSparklineChart(elementId, data, ...), run by a callback: the chart
\* element of the symbol's card, if the document has one now, gets a new
\* chart in place of the one it had.
renderSparklineChart(timer, d) ==
    IF /\ Has(d, timer.container)
       /\ d[timer.container].kind = "section"
       /\ \E i \in DOMAIN d[timer.container].cards :
              /\ d[timer.container].cards[i].symbol = timer.symbol
              /\ d[timer.container].cards[i].card.kind = "card"
    THEN LET i == CHOOSE i \in DOMAIN d[timer.container].cards :
                      d[timer.container].cards[i].symbol = timer.symbol
         IN  [d EXCEPT ![timer.container].cards[i].card.chart =
                 [kind |-> "chart", data |-> timer.data,
                  color |-> IF timer.colorClass = "text-success"
                            THEN "#28a745" ELSE "#dc3545",
                  isPercentage |-> timer.isPercentage]]
    ELSE d

\* The chart elements of a section that hold a chart, each named by its
\* section and its symbol (the id chart-<section>-<symbol>).
ChartsIn(d, container) ==
    IF Has(d, container) /\ d[container].kind = "section"
    THEN {[container |-> container, symbol |-> d[container].cards[i].symbol] :
             i \in {j \in DOMAIN d[container].cards :
                        /\ d[container].cards[j].card.kind = "card"
                        /\ d[container].cards[j].card.chart.kind = "chart"}}
    ELSE {}

\* container.innerHTML = ... puts new elements in the place of the old ones:
\* the charts the old chart elements held leave the document with them, and
\* destroy() is not called on them.  A section that a render has written
\* differs from what it was whenever the old one held a chart, the new chart
\* elements being empty.
Detached(d, d2) ==
    UNION {IF d2[c] # d[c] THEN ChartsIn(d, c) ELSE {} :
              c \in {"market-breadth-container", "global-markets-container"}
                       \cap DOMAIN d}

\* renderGlobalTimestamp(marketData): the latest of the last dates of the
\* histories; reading the date of a point that is null throws.
LastDates(marketData) ==
    {marketData.fields[sym].elems[Len(marketData.fields[sym].elems)].date :
        sym \in {s \in DOMAIN marketData.fields : Len(marketData.fields[s].elems) > 0}}

renderGlobalTimestamp(marketData, d) ==
    IF ~Has(d, "global-timestamp-container") \/ ~NonEmptyObject(marketData) THEN Ran(d)
    ELSE IF \E sym \in DOMAIN marketData.fields :
                /\ Len(marketData.fields[sym].elems) > 0
                /\ Throws(marketData.fields[sym].elems[Len(marketData.fields[sym].elems)])
         THEN Threw(d)
    ELSE IF LastDates(marketData) = {} THEN Ran(d)
    ELSE LET latestDate == CHOOSE x \in LastDates(marketData) :
                               \A y \in LastDates(marketData) :
                                   DaysFromCivil(y) <= DaysFromCivil(x)
         IN  Ran([d EXCEPT !["global-timestamp-container"] =
                     [kind |-> "marketStamp",
                      date |-> IsoDate(DateGetTime(latestDate))]])

-----------------------------------------------------------------------------
(* The page of the third script.js: theme and initDashboard *)

\* The page a script runs in, by the script.
DashPage == "script.js:834"

\* The text of the theme icon: a sun in dark mode, a moon otherwise.
ThemeIcon(isDarkMode) == Text(IF isDarkMode THEN "sun" ELSE "moon")

\* localStorage.setItem(key, value)
SetItem(store, key, value) ==
    [k \in DOMAIN store \cup {key} |-> IF k = key THEN value ELSE store[k]]

\* localStorage.getItem(key): the value, or null.
GetItem(store, key) == IF key \in DOMAIN store THEN Str(store[key]) ELSE Null

\* querySelector over the buttons of a group: the first active one, or none.
FirstActive(buttons) ==
    IF \E i \in DOMAIN buttons : buttons[i].active
    THEN <<buttons[CHOOSE i \in DOMAIN buttons :
                      /\ buttons[i].active
                      /\ \A j \in DOMAIN buttons : buttons[j].active => i <= j]>>
    ELSE << >>

\* Variant that always takes the default period.
CurrentPeriod_default(d, container) == "ALL"

\* The period and the chart type that toggleTheme reads from a section: the
\* text of the active period button, and the 'price' or 'percent' in the
\* onclick of the active chart type button; 'ALL' and 'price' when the
\* section has no such button.
CurrentPeriod(d, container) ==
    IF Has(d, container) /\ d[container].kind = "section"
          /\ FirstActive(d[container].periodButtons) # << >>
    THEN FirstActive(d[container].periodButtons)[1].label ELSE "ALL"

CurrentChartType(d, container) ==
    IF Has(d, container) /\ d[container].kind = "section"
          /\ FirstActive(d[container].typeButtons) # << >>
    THEN FirstActive(d[container].typeButtons)[1].onclick.chartType ELSE "price"

\* Variant of toggleTheme that stores the theme the page is leaving.
toggleTheme_storesOld(dark, store, market, d) ==
    [darkMode |-> ~dark,
     storage |-> SetItem(store, "theme", IF dark THEN "dark" ELSE "light"),
     dom |-> d, queued |-> << >>, threw |-> FALSE]

\* toggleTheme(): the class of the body, the stored theme, the icon, and the
\* two sections rendered again when the cache holds data.
ToggleOutcome(isDarkMode, stored, r) ==
    [darkMode |-> isDarkMode, storage |-> stored, dom |-> r.dom,
     queued |-> r.queued, threw |-> r.threw]

\* Variant that renders the two sections whatever the cache holds.
ToggleRender_always(isDarkMode, stored, market, d1) ==
    ToggleOutcome(isDarkMode, stored,
        RenderBoth(CurrentPeriod(d1, "market-breadth-container"),
                   CurrentChartType(d1, "market-breadth-container"),
                   CurrentPeriod(d1, "global-markets-container"),
                   CurrentChartType(d1, "global-markets-container"),
                   market, d1))

ToggleRender(isDarkMode, stored, market, d1) ==
    IF NonEmptyObject(market)
    THEN ToggleOutcome(isDarkMode, stored,
             RenderBoth(CurrentPeriod(d1, "market-breadth-container"),
                        CurrentChartType(d1, "market-breadth-container"),
                        CurrentPeriod(d1, "global-markets-container"),
                        CurrentChartType(d1, "global-markets-container"),
                        market, d1))
    ELSE [darkMode |-> isDarkMode, storage |-> stored, dom |-> d1,
          queued |-> << >>, threw |-> FALSE]

toggleTheme(dark, store, market, d) ==
    IF ~Has(d, "theme-icon")
    THEN [darkMode |-> ~dark,
          storage |-> SetItem(store, "theme", IF ~dark THEN "dark" ELSE "light"),
          dom |-> d, queued |-> << >>, threw |-> TRUE]
    ELSE ToggleRender(~dark,
                      SetItem(store, "theme", IF ~dark THEN "dark" ELSE "light"),
                      market, [d EXCEPT !["theme-icon"] = ThemeIcon(~dark)])

\* Variant in which the system preference wins over the stored theme.
applyInitialTheme_preferenceFirst(dark, store, prefersDark, d, hs) ==
    LET saved      == GetItem(store, "theme")
        savedTheme == IF prefersDark THEN "dark"
                      ELSE IF Truthy(saved) THEN saved.s ELSE "light"
        isDark     == dark \/ savedTheme = "dark"
    IN  IF ~Has(d, "theme-icon")
        THEN [darkMode |-> isDark, dom |-> d, handlers |-> hs, threw |-> TRUE]
        ELSE [darkMode |-> isDark,
              dom |-> [d EXCEPT !["theme-icon"] = ThemeIcon(savedTheme = "dark")],
              handlers |-> IF Has(d, "theme-toggle")
                           THEN hs \cup {"theme-toggle.click"} ELSE hs,
              threw |-> FALSE]

\* applyInitialTheme(): the stored theme, or the one the system prefers,
\* decides the class of the body and the icon; the toggle gets its listener.
applyInitialTheme(dark, store, prefersDark, d, hs) ==
    LET saved      == GetItem(store, "theme")
        savedTheme == IF Truthy(saved) THEN saved.s
                      ELSE IF prefersDark THEN "dark" ELSE "light"
        isDark     == dark \/ savedTheme = "dark"
    IN  IF ~Has(d, "theme-icon")
        THEN [darkMode |-> isDark, dom |-> d, handlers |-> hs, threw |-> TRUE]
        ELSE [darkMode |-> isDark,
              dom |-> [d EXCEPT !["theme-icon"] = ThemeIcon(savedTheme = "dark")],
              handlers |-> IF Has(d, "theme-toggle")
                           THEN hs \cup {"theme-toggle.click"} ELSE hs,
              threw |-> FALSE]

InitDashboard == "initDashboard@script.js:1486"

\* The loaders initDashboard starts, in the order of the calls.
DashLoaders == <<"loadHiborRates@script.js:1071", "loadFearGreedIndex@script.js:1357">>

\* What the server may hold for market_data_history.json.
DashMarkets ==
    {EmptyObject, DashPartialMarket, DashMalformedMarket}

\* How the fetch of market_data_history.json may settle.
DashMarketNets ==
    {NetReject, Response(404, InvalidBody)}
      \cup {Response(200, ValidBody(m)) : m \in DashMarkets}

\* What the server holds for the files of the two loaders.
DashHibor ==
    Arr(<<[term |-> "1M", rate |-> Num(17, 4),
           timestamp |-> [y |-> 2024, m |-> 3, d |-> 1]]>>)

DashSentiment ==
    Arr(<<[date |-> SentimentDate(Greed), value |-> SentimentValue(Greed),
           sentiment |-> Chars(Greed)]>>)

\* How the fetch of a loader of the page may settle.
DashLoaderNets(fn) ==
    {NetReject,
     Response(200, ValidBody(IF fn = DashLoaders[1] THEN DashHibor ELSE DashSentiment))}

\* DOMContentLoaded on the page of the third script.js: initDashboard runs
\* up to its await, that is applyInitialTheme() and the fetch of
\* market_data_history.json.
DomContentLoaded ==
    /\ page = DashPage
    /\ tasks = << >>
    /\ \E prefersDark \in BOOLEAN :
         LET a == applyInitialTheme(darkMode, storage, prefersDark, dom, handlers)
         IN  /\ darkMode' = a.darkMode
             /\ dom' = a.dom
             /\ handlers' = a.handlers
             /\ IF a.threw
                THEN /\ tasks' = <<Finished(NewTask(InitDashboard, "", "load"),
                                            NoValue, a)>>
                     /\ UNCHANGED fetchLog
                ELSE /\ tasks' = <<NewTask(InitDashboard, "", "load")>>
                     /\ fetchLog' = Append(fetchLog, "market_data_history.json")
    /\ UNCHANGED <<page, globalMarketsChart, orphanCharts, fullMarketData, storage, timers>>
    /\ UNCHANGED pageFrame

\* initDashboard from the value fetchData returned to its end: the cache,
\* the timestamp, the two loaders, the two window properties, the two
\* sections.  What throws ends it on the spot.
InitAfterRender(i, net, r) ==
    /\ tasks' = EndTask(tasks, i, net, r)
                   \o [k \in 1..Len(DashLoaders) |-> NewTask(DashLoaders[k], "", "load")]
    /\ fetchLog' = fetchLog \o [k \in 1..Len(DashLoaders) |-> PathOf(DashLoaders[k])]
    /\ handlers' = handlers \cup {"window.renderMarketBreadth",
                                  "window.renderGlobalMarkets"}
    /\ dom' = r.dom
    /\ timers' = timers \o r.queued
    /\ orphanCharts' = orphanCharts \cup Detached(dom, r.dom)

InitAfterStamp(i, net, cache, stamped) ==
    IF stamped.threw
    THEN /\ tasks' = EndTask(tasks, i, net, stamped)
         /\ dom' = stamped.dom
         /\ UNCHANGED <<fetchLog, handlers, timers, orphanCharts>>
    ELSE InitAfterRender(i, net,
             RenderBoth("ALL", "price", "ALL", "price", cache, stamped.dom))

InitAfterCache(i, net, assigned, cache) ==
    /\ fullMarketData' = cache
    /\ InitAfterStamp(i, net, cache,
                      IF assigned THEN renderGlobalTimestamp(cache, dom) ELSE Ran(dom))

\* Variant that caches whatever fetchData returned, null included.
InitDashboardResume_storesAnything(i, net, marketData) ==
    InitAfterCache(i, net, NonEmptyObject(marketData), marketData)

InitDashboardResume(i, net, marketData) ==
    InitAfterCache(i, net, NonEmptyObject(marketData),
                   IF NonEmptyObject(marketData)
                   THEN Spread(fullMarketData, marketData) ELSE fullMarketData)

\* The fetch of initDashboard settles in one of the ways of nets.
InitFetchSettlesOn(i, nets) ==
    /\ tasks[i].fn = InitDashboard
    /\ tasks[i].pc = "awaitFetch"
    /\ \E net \in nets :
         LET r == fetchDataOnFetch("script.js:849", net)
         IN  IF r.pc = "done"
             THEN InitDashboardResume(i, net, r.result.value)
             ELSE /\ tasks' = [tasks EXCEPT ![i].pc = r.pc, ![i].net = net]
                  /\ UNCHANGED <<dom, fullMarketData, fetchLog, handlers, timers,
                                 orphanCharts>>
    /\ UNCHANGED <<page, globalMarketsChart, darkMode, storage>>
    /\ UNCHANGED pageFrame

\* The fetch of initDashboard settles.
InitFetchSettles(i) == InitFetchSettlesOn(i, DashMarketNets)

\* response.json() of initDashboard settles.
InitJsonSettles(i) ==
    /\ tasks[i].fn = InitDashboard
    /\ tasks[i].pc = "awaitJson"
    /\ InitDashboardResume(i, tasks[i].net,
                           fetchDataOnJson("script.js:849", tasks[i].net.body).value)
    /\ UNCHANGED <<page, globalMarketsChart, darkMode, storage>>
    /\ UNCHANGED pageFrame

\* Variant in which a render fetches the market data again.
RenderFetches_refetch(container) == <<"market_data_history.json">>

\* The fetches renderMarketBreadth and renderGlobalMarkets issue: none, they
\* read fullMarketData.
RenderFetches(container) == << >>

\* What a call that renders leaves: the document and the callbacks queued.
Rendered(r) ==
    /\ dom' = r.dom
    /\ timers' = timers \o r.queued
    /\ orphanCharts' = orphanCharts \cup Detached(dom, r.dom)

\* toggleTheme() has run.
Toggled(r) ==
    /\ darkMode' = r.darkMode
    /\ storage' = r.storage
    /\ Rendered(r)

\* The sections that have filter buttons, with the property of window their
\* buttons call.
SectionHandler(container) ==
    IF container = "market-breadth-container" THEN "window.renderMarketBreadth"
    ELSE "window.renderGlobalMarkets"

\* A click on a period or a chart type button of a section: the button calls
\* the render with the arguments of its onclick.
\* A click is taken when the callbacks queued before it have run.
ClickFilter(container, p, chartType) ==
    /\ page = DashPage
    /\ timers = << >>
    /\ Has(dom, container)
    /\ dom[container].kind = "section"
    /\ \/ \E i \in DOMAIN dom[container].periodButtons :
              dom[container].periodButtons[i].onclick =
                 [period |-> p, chartType |-> chartType]
       \/ \E i \in DOMAIN dom[container].typeButtons :
              dom[container].typeButtons[i].onclick =
                 [period |-> p, chartType |-> chartType]
    /\ SectionHandler(container) \in handlers
    /\ Rendered(IF container = "market-breadth-container"
                THEN renderMarketBreadth(p, chartType, fullMarketData, dom)
                ELSE renderGlobalMarkets(p, chartType, fullMarketData, dom))
    /\ fetchLog' = fetchLog \o RenderFetches(container)
    /\ UNCHANGED <<page, globalMarketsChart, tasks, fullMarketData, darkMode, storage,
                   handlers>>
    /\ UNCHANGED pageFrame

\* A click on the theme toggle.
ClickThemeToggle ==
    /\ page = DashPage
    /\ timers = << >>
    /\ "theme-toggle.click" \in handlers
    /\ Toggled(toggleTheme(darkMode, storage, fullMarketData, dom))
    /\ UNCHANGED <<page, globalMarketsChart, tasks, fullMarketData, fetchLog, handlers>>
    /\ UNCHANGED pageFrame

\* The callback that setTimeout queued first runs.
TimerFires ==
    /\ timers # << >>
    /\ dom' = renderSparklineChart(Head(timers), dom)
    /\ timers' = Tail(timers)
    /\ UNCHANGED <<page, globalMarketsChart, orphanCharts,
                   tasks, fullMarketData, fetchLog, darkMode,
                   storage, handlers>>
    /\ UNCHANGED pageFrame

\* The page is loaded again: everything starts afresh but localStorage.
\* What was in flight is dropped with the page.
Reload ==
    /\ page = DashPage
    /\ tasks # << >>
    /\ timers = << >>
    /\ dom' = InitialDom(ContainerLayout)
    /\ tasks' = << >>
    /\ fullMarketData' = EmptyObject
    /\ fetchLog' = << >>
    /\ darkMode' = FALSE
    /\ handlers' = {}
    /\ orphanCharts' = {}
    /\ UNCHANGED <<page, globalMarketsChart, storage, timers>>
    /\ UNCHANGED pageFrame

\* The page on a first visit: the shipped document, nothing stored.
InitDash ==
    /\ CalcIdle /\ GwIdle
    /\ page = DashPage
    /\ dom = InitialDom(ContainerLayout)
    /\ tasks = << >>
    /\ fullMarketData = EmptyObject
    /\ fetchLog = << >>
    /\ darkMode = FALSE
    /\ storage = << >>
    /\ handlers = {}
    /\ timers = << >>
    /\ globalMarketsChart = Null
    /\ orphanCharts = {}

NextDash ==
    \/ DomContentLoaded
    \/ \E i \in 1..Len(tasks) : InitFetchSettles(i)
    \/ \E i \in 1..Len(tasks) : InitJsonSettles(i)
    \/ \E i \in 1..Len(tasks) : LoadFetchSettles(i, DashLoaderNets(tasks[i].fn))
    \/ \E i \in 1..Len(tasks) : LoadJsonSettles(i)
    \/ \E c \in {"market-breadth-container", "global-markets-container"},
          p \in FilterPeriods, t \in ChartTypes : ClickFilter(c, p, t)
    \/ ClickThemeToggle
    \/ TimerFires
    \/ Reload

SpecDash == InitDash /\ [][NextDash]_vars

-----------------------------------------------------------------------------
(* Claims about the page of the third script.js *)

\* initDashboard has run to its end, normally or by throwing.
InitEnded ==
    \E i \in 1..Len(tasks) :
        tasks[i].fn = InitDashboard /\ tasks[i].pc \in {"done", "threw"}

\* A loader of the page has been called.
Started(fn) == \E j \in 1..Len(tasks) : tasks[j].fn = fn

\* C13: a failure of the load of the market data (null, a rejection, a
\* malformed shape) never prevents the loaders of the other widgets from
\* being started: once initDashboard has ended, the HIBOR and the Fear &
\* Greed loaders have been called.
C13_OtherLoadersStarted ==
    page = DashPage /\ InitEnded
        => \A k \in 1..Len(DashLoaders) : Started(DashLoaders[k])

\* C15: localStorage is written under the key 'theme' only, with the value
\* 'dark' or 'light', and right after toggleTheme the stored value is 'dark'
\* exactly when the body is in dark mode.
C15_OnlyThemePersisted ==
    [][ /\ storage' # storage =>
              /\ DOMAIN storage' = DOMAIN storage \cup {"theme"}
              /\ storage'["theme"] \in {"dark", "light"}
              /\ \A k \in DOMAIN storage \ {"theme"} : storage'[k] = storage[k]
        /\ "theme-toggle.click" \in handlers \cap handlers' /\ darkMode' # darkMode =>
              /\ "theme" \in DOMAIN storage'
              /\ (storage'["theme"] = "dark") <=> darkMode' ]_vars

\* toggleTheme has stored 'light' after the page had been dark, with the
\* sections rendered.
C15_Witness ==
    /\ page = DashPage
    /\ "theme" \in DOMAIN storage /\ storage["theme"] = "light"
    /\ ~darkMode
    /\ dom["theme-icon"] = ThemeIcon(FALSE)
    /\ dom["market-breadth-container"].kind = "section"

\* The number of times path has been fetched since the page was loaded.
Fetches(path) == Cardinality({k \in 1..Len(fetchLog) : fetchLog[k] = path})

\* C18: market_data_history.json is fetched once per page load, and while
\* that fetch is in flight nothing has been rendered from the cache: the
\* cache is empty, the two sections show what the page shipped with, no
\* filter button can reach the renders and no chart is waiting to be drawn.
C18_RendersAfterTheFetch ==
    page = DashPage =>
        /\ Fetches("market_data_history.json") = IF tasks = << >> THEN 0 ELSE 1
        /\ ~InitEnded =>
              /\ fullMarketData = EmptyObject
              /\ dom["market-breadth-container"] = Placeholder
              /\ dom["global-markets-container"] = Placeholder
              /\ handlers \cap {"window.renderMarketBreadth",
                                "window.renderGlobalMarkets"} = {}
              /\ timers = << >>

\* The fetch has settled, the cache holds its data, and a filter button has
\* rendered a section for another period.
C18_Witness ==
    /\ page = DashPage
    /\ InitEnded
    /\ Fetches("market_data_history.json") = 1
    /\ fullMarketData = DashPartialMarket
    /\ dom["market-breadth-container"].kind = "section"
    /\ dom["market-breadth-container"].period = "1M"

-----------------------------------------------------------------------------
(* The page of part_000 *)

Part000Page == "part_000"

\* The elements part_000 writes to.
Part000Layout ==
    {"ai-analysis-container", "fear-greed-container", "hibor-rates-container",
     "market-breadth-container", "global-markets-chart"}

\* The loaders initDashboard of part_000 calls, in the order of the calls.
Part000Loaders ==
    <<"loadAIAnalysis@part_000:48", "loadFearGreedIndex@part_000:68",
      "loadHiborRates@part_000:104", "loadMarketBreadth@part_000:128">>

RenderGlobalMarketsAsync == "renderGlobalMarkets@part_000:161"

\* The file, the element, the "not available" text and the well-formed
\* data of a loader of part_000.
Part000Path(fn) ==
    CASE fn = Part000Loaders[1] -> "ai_analysis.json"
      [] fn = Part000Loaders[2] -> "fear_greed_index.json"
      [] fn = Part000Loaders[3] -> "hibor_rates.json"
      [] fn = Part000Loaders[4] -> "market_breadth.json"
      [] OTHER -> "market_data_history.json"

Part000Container(fn) ==
    CASE fn = Part000Loaders[1] -> "ai-analysis-container"
      [] fn = Part000Loaders[2] -> "fear-greed-container"
      [] fn = Part000Loaders[3] -> "hibor-rates-container"
      [] fn = Part000Loaders[4] -> "market-breadth-container"
      [] OTHER -> "global-markets-chart"

Part000Unavailable(fn) == [kind |-> "unavailable", of |-> Part000Container(fn)]

Part000Sample(fn) ==
    CASE fn = Part000Loaders[1] ->
             [tag |-> "object",
              fields |-> [analysis |-> Str("text"), sentiment |-> Str("Bullish"),
                          timestamp |-> Str("2024-03-01")]]
      [] fn = Part000Loaders[2] ->
             [tag |-> "object",
              fields |-> [value |-> Num(64, 1), sentiment |-> Chars(Greed),
                          timestamp |-> Str("2024-03-01")]]
      [] fn = Part000Loaders[3] ->
             [tag |-> "object",
              fields |-> [rates |-> Arr(<<[term |-> "1M", rate |-> Num(17, 4),
                                           date |-> Str("2024-03-01")]>>),
                          timestamp |-> Str("2024-03-01")]]
      [] fn = Part000Loaders[4] ->
             [tag |-> "object",
              fields |-> [breadth |-> Arr(<<[name |-> "SPX", percent_above |-> Num(61, 1),
                                             ma_days |-> Num(50, 1)]>>),
                          timestamp |-> Str("2024-03-01")]]

\* The test a loader of part_000 makes of what fetchData returned.
Part000Accepts(fn, data) ==
    /\ Truthy(data)
    /\ CASE fn = Part000Loaders[1] -> Truthy(Field(data, "analysis"))
         [] fn = Part000Loaders[2] -> Field(data, "value") # Undefined
         [] fn = Part000Loaders[3] ->
                /\ Truthy(Field(data, "rates"))
                /\ Field(data, "rates").tag = "array"
                /\ Len(Field(data, "rates").elems) > 0
         [] fn = Part000Loaders[4] -> Truthy(Field(data, "breadth"))

\* A loader of part_000 from the value fetchData returned: the markup is a
\* function of the data, which stands for it here.  loadAIAnalysis does not
\* test its container.
Part000Load(fn, data, d, chart) ==
    IF ~Has(d, Part000Container(fn))
    THEN [dom |-> d, chart |-> chart, threw |-> fn = Part000Loaders[1]]
    ELSE [dom |-> [d EXCEPT ![Part000Container(fn)] =
                      IF Part000Accepts(fn, data)
                      THEN [kind |-> "widget", data |-> data]
                      ELSE Part000Unavailable(fn)],
          chart |-> chart, threw |-> FALSE]

\* market_data_history.json as part_000 reads it.
Part000Market ==
    [tag |-> "object",
     fields |-> [sym \in {"GSPC", "HSI"} |->
                    Arr(<<[date |-> Str("2024-03-01"),
                           close |-> IF sym = "GSPC" THEN Num(5100, 1) ELSE Num(16500, 1),
                           name |-> Str(sym)]>>)]]

\* The symbols of the buttons that call window.renderGlobalMarkets.
Part000Symbols == {"GSPC", "HSI"}

\* The chart renderGlobalMarkets of part_000 draws from a history.
Part000Chart(symbol, chartData) ==
    [kind |-> "chart", symbol |-> symbol,
     labels |-> [k \in 1..Len(chartData.elems) |-> chartData.elems[k].date],
     data |-> [k \in 1..Len(chartData.elems) |-> chartData.elems[k].close],
     name |-> chartData.elems[1].name]

\* renderGlobalMarkets(symbol) of part_000 from the value fetchData
\* returned: the "not available" text of the symbol, or a canvas with a new
\* chart in place of the one globalMarketsChart held.  An empty history, or
\* one that is no array, throws before anything is written.
RenderGlobalMarketsResume(symbol, data, d, chart) ==
    IF ~Has(d, "global-markets-chart") THEN [dom |-> d, chart |-> chart, threw |-> FALSE]
    ELSE IF ~Truthy(data) \/ ~Truthy(Field(data, symbol))
         THEN [dom |-> [d EXCEPT !["global-markets-chart"] =
                           [kind |-> "unavailable", of |-> symbol]],
               chart |-> chart, threw |-> FALSE]
    ELSE IF \/ Field(data, symbol).tag # "array"
            \/ Len(Field(data, symbol).elems) = 0
            \/ \E k \in 1..Len(Field(data, symbol).elems) :
                   Throws(Field(data, symbol).elems[k])
         THEN [dom |-> d, chart |-> chart, threw |-> TRUE]
    ELSE [dom |-> [d EXCEPT !["global-markets-chart"] =
                      [kind |-> "canvas", symbol |-> symbol]],
          chart |-> Part000Chart(symbol, Field(data, symbol)), threw |-> FALSE]

\* A routine of part_000 from the value fetchData returned.
Part000Resume(fn, arg, data, d, chart) ==
    IF fn = RenderGlobalMarketsAsync
    THEN RenderGlobalMarketsResume(arg, data, d, chart)
    ELSE Part000Load(fn, data, d, chart)

\* How the fetch of a routine of part_000 may settle.
Part000Nets(fn) ==
    {Response(404, InvalidBody),
     Response(200, ValidBody(IF fn = RenderGlobalMarketsAsync THEN Part000Market
                             ELSE Part000Sample(fn)))}

\* DOMContentLoaded on the page of part_000: initDashboard calls the four
\* loaders and renderGlobalMarkets('GSPC'), each of which issues its fetch,
\* and sets the properties of window.
Part000DomContentLoaded ==
    /\ page = Part000Page
    /\ tasks = << >>
    /\ tasks' = [k \in 1..Len(Part000Loaders) |-> NewTask(Part000Loaders[k], "", "load")]
                  \o <<NewTask(RenderGlobalMarketsAsync, "GSPC", "load")>>
    /\ fetchLog' = fetchLog
                  \o [k \in 1..Len(Part000Loaders) |-> Part000Path(Part000Loaders[k])]
                  \o <<Part000Path(RenderGlobalMarketsAsync)>>
    /\ handlers' = handlers \cup {"window.renderGlobalMarkets", "window.switchTab",
                                  "window.load13FData"}
    /\ UNCHANGED <<page, globalMarketsChart, orphanCharts,
                   dom, fullMarketData, darkMode, storage,
                   timers>>
    /\ UNCHANGED pageFrame

\* A click on the button of a symbol calls window.renderGlobalMarkets, which
\* issues its fetch and waits.  One click is followed.
Part000Click(symbol) ==
    /\ page = Part000Page
    /\ "window.renderGlobalMarkets" \in handlers
    /\ \A j \in 1..Len(tasks) : tasks[j].by = "load"
    /\ tasks' = Append(tasks, NewTask(RenderGlobalMarketsAsync, symbol, "click"))
    /\ fetchLog' = Append(fetchLog, Part000Path(RenderGlobalMarketsAsync))
    /\ UNCHANGED <<page, globalMarketsChart, orphanCharts,
                   dom, fullMarketData, darkMode, storage,
                   handlers, timers>>
    /\ UNCHANGED pageFrame

\* Invocation i of a routine of part_000 has run to its end.
Part000Ended(i, net, out) ==
    /\ tasks' = EndTask(tasks, i, net, out)
    /\ dom' = out.dom
    /\ globalMarketsChart' = out.chart

Part000Routine(fn) ==
    fn = RenderGlobalMarketsAsync \/ \E k \in 1..Len(Part000Loaders) : fn = Part000Loaders[k]

\* fetchData has its answer from fetch(): it returns null, or goes on to
\* response.json().
Part000AfterFetch(i, net, r) ==
    IF r.pc = "done"
    THEN Part000Ended(i, net,
             Part000Resume(tasks[i].fn, tasks[i].arg, r.result.value, dom,
                           globalMarketsChart))
    ELSE /\ tasks' = [tasks EXCEPT ![i].pc = r.pc, ![i].net = net]
         /\ UNCHANGED <<dom, globalMarketsChart>>

\* The fetch of invocation i of a routine of part_000 settles.
Part000FetchSettles(i) ==
    /\ Part000Routine(tasks[i].fn)
    /\ tasks[i].pc = "awaitFetch"
    /\ \E net \in Part000Nets(tasks[i].fn) :
         Part000AfterFetch(i, net, fetchDataOnFetch("part_000:12", net))
    /\ UNCHANGED <<page, fullMarketData, fetchLog, darkMode, storage, handlers, timers,
                   orphanCharts>>
    /\ UNCHANGED pageFrame

\* response.json() of invocation i of a routine of part_000 settles.
Part000JsonSettles(i) ==
    /\ Part000Routine(tasks[i].fn)
    /\ tasks[i].pc = "awaitJson"
    /\ Part000Ended(i, tasks[i].net,
           Part000Resume(tasks[i].fn, tasks[i].arg,
                         fetchDataOnJson("part_000:12", tasks[i].net.body).value, dom,
                         globalMarketsChart))
    /\ UNCHANGED <<page, fullMarketData, fetchLog, darkMode, storage, handlers, timers,
                   orphanCharts>>
    /\ UNCHANGED pageFrame

\* The pages that have buttons to change what a market section shows: the
\* one of the third script.js and the one of part_000, on a first visit.
InitPages ==
    /\ CalcIdle /\ GwIdle
    /\ \/ page = DashPage /\ dom = InitialDom(ContainerLayout)
       \/ page = Part000Page /\ dom = InitialDom(Part000Layout)
    /\ tasks = << >>
    /\ fullMarketData = EmptyObject
    /\ fetchLog = << >>
    /\ darkMode = FALSE
    /\ storage = << >>
    /\ handlers = {}
    /\ timers = << >>
    /\ globalMarketsChart = Null
    /\ orphanCharts = {}

NextPages ==
    \/ NextDash
    \/ Part000DomContentLoaded
    \/ \E symbol \in Part000Symbols : Part000Click(symbol)
    \/ \E i \in 1..Len(tasks) : Part000FetchSettles(i)
    \/ \E i \in 1..Len(tasks) : Part000JsonSettles(i)

SpecPages == InitPages /\ [][NextPages]_vars

\* A section of the page of the third script.js shows its filter buttons.
SectionShown ==
    \E c \in {"market-breadth-container", "global-markets-container"} :
        Has(dom, c) /\ dom[c].kind = "section"

\* C14 as stated, for every page: a selection made by the user starts no
\* invocation that fetches and waits, so every invocation there is has been
\* started by the load of the page.
C14_NoSelectionFetches ==
    \A i \in 1..Len(tasks) : tasks[i].by = "load"

\* C14: on the page of script.js, a step that renders a section whose
\* filter buttons are shown (a click on a period or chart type button, or
\* the theme toggle) issues no fetch, starts and resumes no invocation and
\* leaves the cache as it is; on the page of part_000 every selection of a
\* symbol fetches market_data_history.json and waits for it.
C14_FilterClicksUseTheCache ==
    [][ /\ page = DashPage /\ SectionShown /\ Len(timers') > Len(timers) =>
              /\ fetchLog' = fetchLog
              /\ tasks' = tasks
              /\ fullMarketData' = fullMarketData
        /\ page = Part000Page /\ tasks # << >> /\ Len(tasks') > Len(tasks) =>
              /\ Len(fetchLog') = Len(fetchLog) + 1
              /\ fetchLog'[Len(fetchLog')] = "market_data_history.json"
              /\ tasks'[Len(tasks')].pc = "awaitFetch" ]_vars

\* A filter button has rendered the Market Breadth section for three
\* months when the only fetches are those of the page load.
C14_Witness ==
    /\ page = DashPage
    /\ dom["market-breadth-container"].kind = "section"
    /\ dom["market-breadth-container"].period = "3M"
    /\ dom["global-markets-container"].chartType = "percent"
    /\ fetchLog = <<"market_data_history.json", "hibor_rates.json",
                    "market_sentiment_history.json">>

-----------------------------------------------------------------------------
(* The page of part_001: loadAllData and the refresh button *)

Part001Page == "part_001"

\* The loaders loadAllData hands to Promise.all, in the order of the calls.
Part001Loaders ==
    <<"loadFearGreedIndex@part_001:19", "loadHiborRates@part_001:55",
      "loadMarketBreadth@part_001:82", "loadFundFlows@part_001:111">>

\* The elements of the widget of a loader of part_001.
WidgetIds(fn) ==
    IF fn = "loadFearGreedIndex@part_001:19"
    THEN {"fearGreedIndex", "fearGreedStatus", "fearGreedTimestamp"}
    ELSE {Part001ListId(fn), Part001StampId(fn)}

\* market_sentiment.json, well formed.
Part001Sentiment ==
    Arr(<<[value |-> SentimentValue(Greed), status |-> Chars(Greed),
           timestamp |-> SentimentDate(Greed)]>>)

\* How the fetch of a loader of the page may settle: the file is served,
\* or, for the first two widgets, the fetch fails.
Part001Nets(fn) ==
    {Response(200, ValidBody(IF fn = Part001Loaders[1] THEN Part001Sentiment
                             ELSE Part001ListSample(fn)))}
      \cup (IF fn \in {Part001Loaders[1], Part001Loaders[2]} THEN {NetReject} ELSE {})

\* '載入中...'
LoadingText == Text("loading (zh)")

\* formatTimestamp(new Date().toISOString())
NowText == FormatTimestampLocale(Str("now"))

\* loadAllData() is called, by DOMContentLoaded or by a click on the refresh
\* button: it writes '載入中...' and calls the four loaders, each of which
\* issues its fetch.  The load of the page and one click are followed.
LoadAllData(by) ==
    /\ page = Part001Page
    /\ IF by = "load" THEN tasks = << >>
       ELSE /\ tasks # << >>
            /\ "refreshBtn.click" \in handlers
            /\ \A j \in 1..Len(tasks) : tasks[j].by = "load"
    /\ Has(dom, "lastUpdate")
    /\ dom' = [dom EXCEPT !["lastUpdate"] = LoadingText]
    /\ tasks' = tasks \o [k \in 1..Len(Part001Loaders) |-> NewTask(Part001Loaders[k], "", by)]
    /\ fetchLog' = fetchLog \o [k \in 1..Len(Part001Loaders) |-> PathOf(Part001Loaders[k])]
    /\ UNCHANGED <<page, globalMarketsChart, orphanCharts,
                   fullMarketData, darkMode, storage, handlers,
                   timers>>
    /\ UNCHANGED pageFrame

\* The rest of loadAllData, which runs when the promises of its four
\* loaders have all been fulfilled: the time of the update.
AfterPromiseAll(ts, by, d) ==
    IF \A j \in 1..Len(ts) : ts[j].by = by => ts[j].pc = "done"
    THEN SetIfPresent(d, "lastUpdate", NowText)
    ELSE d

\* A loader of the page has run to its end.
Part001Ended(i, net, outcome) ==
    /\ tasks' = EndTask(tasks, i, net, outcome)
    /\ dom' = AfterPromiseAll(EndTask(tasks, i, net, outcome), tasks[i].by, outcome.dom)

Part001AfterFetch(i, net, r) ==
    IF r.pc = "done" THEN Part001Ended(i, net, r.outcome)
    ELSE /\ tasks' = [tasks EXCEPT ![i].pc = r.pc, ![i].net = net]
         /\ UNCHANGED dom

\* The fetch of invocation i of a loader of the page settles.
Part001FetchSettles(i) ==
    /\ page = Part001Page
    /\ tasks[i].pc = "awaitFetch"
    /\ \E net \in Part001Nets(tasks[i].fn) :
         Part001AfterFetch(i, net, LoaderOnFetch(tasks[i].fn, net, dom))
    /\ UNCHANGED <<page, globalMarketsChart, orphanCharts,
                   fullMarketData, fetchLog, darkMode, storage,
                   handlers, timers>>
    /\ UNCHANGED pageFrame

\* response.json() of invocation i of a loader of the page settles.
Part001JsonSettles(i) ==
    /\ page = Part001Page
    /\ tasks[i].pc = "awaitJson"
    /\ Part001Ended(i, tasks[i].net, LoaderOnJson(tasks[i].fn, tasks[i].net.body, dom))
    /\ UNCHANGED <<page, globalMarketsChart, orphanCharts,
                   fullMarketData, fetchLog, darkMode, storage,
                   handlers, timers>>
    /\ UNCHANGED pageFrame

\* The page once the script has run: the shipped document, the listener of
\* the refresh button and the one of DOMContentLoaded.
InitRefresh ==
    /\ CalcIdle /\ GwIdle
    /\ page = Part001Page
    /\ dom = InitialDom(Part001Layout)
    /\ tasks = << >>
    /\ fullMarketData = EmptyObject
    /\ fetchLog = << >>
    /\ darkMode = FALSE
    /\ storage = << >>
    /\ handlers = {"refreshBtn.click", "window.DOMContentLoaded"}
    /\ timers = << >>
    /\ globalMarketsChart = Null
    /\ orphanCharts = {}

NextRefresh ==
    \/ \E by \in {"load", "click"} : LoadAllData(by)
    \/ \E i \in 1..Len(tasks) : Part001FetchSettles(i)
    \/ \E i \in 1..Len(tasks) : Part001JsonSettles(i)

SpecRefresh == InitRefresh /\ [][NextRefresh]_vars

\* What one invocation of a loader shows when it runs alone on the page as
\* shipped and its fetch settles as net.
ShownAlone(fn, net) ==
    IF LoaderOnFetch(fn, net, InitialDom(Part001Layout)).pc = "done"
    THEN LoaderOnFetch(fn, net, InitialDom(Part001Layout)).outcome.dom
    ELSE LoaderOnJson(fn, net.body, InitialDom(Part001Layout)).dom

\* Every invocation of fn there is has run to its end.
AllEnded(fn) ==
    \A j \in 1..Len(tasks) : tasks[j].fn = fn => tasks[j].pc \in {"done", "threw"}

\* C17: when the invocations of a loader started by the page load and by
\* the refresh button have both run to their end, the widget shows what
\* the invocation that ended last has written, and nothing of the other.
C17_LastCompletedWins ==
    page = Part001Page =>
        \A i \in 1..Len(tasks) :
            tasks[i].last /\ AllEnded(tasks[i].fn) =>
                \A id \in WidgetIds(tasks[i].fn) :
                    dom[id] = ShownAlone(tasks[i].fn, tasks[i].net)[id]

-----------------------------------------------------------------------------
(* Claims about single loaders *)

\* The elements in which a loader shows the figures or the text of its
\* widget.
WidgetTexts(fn) ==
    CASE fn \in {"loadHiborRates@script.js:95", "loadHiborRates@script.js:412",
                 "loadHiborRates@script.js:1071", "loadHiborRates@README.md:215"}
             -> {"hibor-rates-container", "hibor-1m", "hibor-3m", "hibor-6m",
                 "hibor-timestamp"}
      [] fn \in {"loadFearGreedIndex@script.js:671", "loadFearGreedIndex@script.js:1357"}
             -> {"fear-greed-container", "fng-value", "fng-sentiment", "fng-timestamp"}
      [] fn = "loadMarketData@script.js:203"
             -> {CardId(sym, part) : sym \in CardSymbols, part \in {"value", "change"}}
      [] fn = "loadFearGreedIndex@part_001:19" -> {"fearGreedIndex"}
      [] OTHER -> {Part001ListId(fn)}

\* C16: when the load of a widget has failed to obtain its data, no element
\* of the widget is left showing the placeholder the page shipped with.
C16_FailedLoadShowsFallback ==
    \A i \in 1..Len(tasks) :
        (page = "loader" /\ Ended(tasks[i]) /\ FetchFailed(tasks[i].net))
            => \A id \in WidgetTexts(tasks[i].fn) \cap DOMAIN dom :
                   dom[id] # Placeholder

\* C19: in the table loadHiborRates writes, the rate of each term of
\* HIBOR_TERMS is that of the first item of the fetched array that has the
\* term and a rate that is numeric (a number, or a string parseFloat reads
\* a number from), and N/A when there is no such item.
C19_FirstNumericRateShown ==
    \A i \in 1..Len(tasks) :
        (/\ page = "loader"
         /\ tasks[i].fn \in {"loadHiborRates@script.js:412",
                             "loadHiborRates@script.js:1071"}
         /\ tasks[i].pc = "done"
         /\ Has(dom, "hibor-rates-container")
         /\ dom["hibor-rates-container"].kind = "rates")
            => \A k \in 1..Len(HIBOR_TERMS) :
                   LET elems == tasks[i].net.body.json.elems
                       hits  == {j \in 1..Len(elems) :
                                    /\ elems[j].term = HIBOR_TERMS[k]
                                    /\ ParseFloat(elems[j].rate).k # "NaN"}
                   IN  dom["hibor-rates-container"].rows[k].rate =
                           IF hits = {} THEN Text("N/A")
                           ELSE NumberToFixed(ParseFloat(
                                    elems[CHOOSE j \in hits : \A h \in hits : j <= h].rate), 3)

\* C20: the card loadFearGreedIndex writes has the colour class of the
\* label of its sentiment, one class for each of the five labels and
\* bg-secondary for any other string.
C20_EachLabelItsOwnColour ==
    \A i \in 1..Len(tasks) :
        (/\ page = "loader"
         /\ tasks[i].fn \in {"loadFearGreedIndex@script.js:671",
                             "loadFearGreedIndex@script.js:1357"}
         /\ tasks[i].pc = "done"
         /\ Has(dom, "fear-greed-container")
         /\ dom["fear-greed-container"].kind = "fng")
            => dom["fear-greed-container"].colorClass =
                   CASE dom["fear-greed-container"].sentiment.chars = ExtremeFear
                            -> "bg-danger"
                     [] dom["fear-greed-container"].sentiment.chars = Fear -> "bg-warning"
                     [] dom["fear-greed-container"].sentiment.chars = Neutral -> "bg-info"
                     [] dom["fear-greed-container"].sentiment.chars = Greed -> "bg-success"
                     [] dom["fear-greed-container"].sentiment.chars = ExtremeGreed
                            -> "bg-primary"
                     [] OTHER -> "bg-secondary"

-----------------------------------------------------------------------------
(* Claims about the charts and the cards of the market sections *)

\* C21: after any calls of renderMarketBreadth / renderGlobalMarkets and
\* their deferred chart renders, each chart slot (the element id of a
\* symbol's chart) has at most one chart instance that was not destroyed:
\* no slot has a chart in the document and another one, never destroyed, on
\* an element that a render replaced.
C21_OneLiveChartPerSlot ==
    page = DashPage =>
        \A slot \in orphanCharts : slot \notin ChartsIn(dom, slot.container)

-----------------------------------------------------------------------------
(* The market sections over histories longer than the windows *)

\* Close prices that start at 0, and decimal close prices.
FromZeroCycle == << Num(0, 1), Num(5, 1), Num(10, 1), Num(4, 1) >>

DecimalCycle == << Num(25, 2), Num(7, 1) >>

\* market_data_history.json with histories on both sides of every window:
\* SPY longer than six months, QQQ longer than three months with a first
\* close of 0, DIA missing, VIX one point longer than a month, HSI empty,
\* N225 a single point.
WindowMarket ==
    [tag |-> "object",
     fields |-> [sym \in {"SPY", "QQQ", "VIX", "HSI", "N225"} |->
                    CASE sym = "SPY"  -> MkHistory(MaxLen, ScenarioA)
                      [] sym = "QQQ"  -> MkHistory(64, FromZeroCycle)
                      [] sym = "VIX"  -> MkHistory(22, DecimalCycle)
                      [] sym = "HSI"  -> Arr(<< >>)
                      [] OTHER        -> MkHistory(1, ScenarioA)]]

\* The fetch of market_data_history.json delivers that file.
WindowNets == {Response(200, ValidBody(WindowMarket))}

\* The page of the third script.js served that file, with the filter
\* buttons of its two sections, the theme toggle and the callbacks that draw
\* the charts.
NextWindow ==
    \/ DomContentLoaded
    \/ \E i \in 1..Len(tasks) : InitFetchSettlesOn(i, WindowNets)
    \/ \E i \in 1..Len(tasks) : InitJsonSettles(i)
    \/ \E c \in {"market-breadth-container", "global-markets-container"},
          p \in FilterPeriods, t \in ChartTypes : ClickFilter(c, p, t)
    \/ ClickThemeToggle
    \/ TimerFires

SpecWindow == InitDash /\ [][NextWindow]_vars

\* The card of a symbol shows the figures of the last point of full, or is
\* the 'Data not found for this period' card exactly when full is missing
\* or empty.
ShowsLatestOf(card, full) ==
    /\ (full.tag = "array" /\ Len(full.elems) > 0) =>
          /\ card.kind = "card"
          /\ card.close =
                NumberToFixed(ParseFloat(full.elems[Len(full.elems)].close), 2)
          /\ card.change =
                NumberToFixed(ParseFloat(full.elems[Len(full.elems)].change_percent), 2)
    /\ card.kind = "notFound" <=> (full.tag = "undefined" \/ Len(full.elems) = 0)

\* C22: for every period, the close and the daily change on the card of a
\* symbol with a non-empty cached history are those of the last point of
\* the full history, and the 'Data not found for this period' card appears
\* only when the full history of the symbol is missing or empty.
C22_CardShowsLatestOfFullHistory ==
    page = DashPage =>
        \A c \in {"market-breadth-container", "global-markets-container"} :
            dom[c].kind = "section" =>
                \A i \in DOMAIN dom[c].cards :
                    ShowsLatestOf(dom[c].cards[i].card,
                                  Field(fullMarketData, dom[c].cards[i].symbol))

\* Market Breadth shows one month of a history longer than six months: the
\* chart of SPY has the 21 points of the window and the card the close of
\* the last point of all; DIA, which the file does not have, is not found.
C22_Witness ==
    /\ page = DashPage
    /\ dom["market-breadth-container"].kind = "section"
    /\ dom["market-breadth-container"].period = "1M"
    /\ Len(Field(fullMarketData, "SPY").elems) > 126
    /\ dom["market-breadth-container"].cards[1].card.kind = "card"
    /\ dom["market-breadth-container"].cards[1].card.chart.kind = "chart"
    /\ Len(dom["market-breadth-container"].cards[1].card.chart.data) = 21
    /\ dom["market-breadth-container"].cards[3].card.kind = "notFound"

\* The number of points of the window of a period over a history of len
\* points: the last 21, 63 or 126, or all of them.
WindowLength(len, p) ==
    LET days == CASE p = "1M" -> 21 [] p = "3M" -> 63 [] p = "6M" -> 126
                  [] OTHER -> len
    IN  IF len < days THEN len ELSE days

\* data is the cumulative series of the last n points of full, with the
\* close of the first of them as the baseline.
CumulativeOverWindow(data, full, n) ==
    /\ Len(data) = n
    /\ \A k \in 1..n :
          data[k].y =
             JsMul(JsDiv(JsSub(full[Len(full) - n + k].close,
                               full[Len(full) - n + 1].close),
                         full[Len(full) - n + 1].close),
                   Num(100, 1))

\* The percent charts in the document, with the history and the period each
\* was drawn for, satisfy P(data, full history, period).
PercentCharts(P(_, _, _)) ==
    \A c \in {"market-breadth-container", "global-markets-container"} :
        (dom[c].kind = "section" /\ dom[c].chartType = "percent") =>
            \A i \in DOMAIN dom[c].cards :
                (/\ dom[c].cards[i].card.kind = "card"
                 /\ dom[c].cards[i].card.chart.kind = "chart") =>
                    P(dom[c].cards[i].card.chart.data,
                      Field(fullMarketData, dom[c].cards[i].symbol).elems,
                      dom[c].period)

\* The series is the one of the window of p and starts at 0.
StartsAtZero(data, full, p) ==
    /\ CumulativeOverWindow(data, full, WindowLength(Len(full), p))
    /\ data[1].y = Num(0, 1)

\* The series is the one of the window of p and starts at 0, or at NaN
\* when the baseline is 0.
StartsAtZeroOrNaN(data, full, p) ==
    /\ CumulativeOverWindow(data, full, WindowLength(Len(full), p))
    /\ LET base == full[Len(full) - WindowLength(Len(full), p) + 1].close
       IN  /\ (base.k = "num" /\ base.n # 0) => data[1].y = Num(0, 1)
           /\ base = Num(0, 1) => data[1].y = NaN

-----------------------------------------------------------------------------
(* Claims about the selection of a section and the theme *)

\* Exactly one period button and one chart type button of the section are
\* active, those of the period and the chart type it was rendered with; a
\* period button calls the render with that chart type, a chart type button
\* with that period.
ButtonsMatch(sec) ==
    /\ Cardinality({i \in DOMAIN sec.periodButtons : sec.periodButtons[i].active}) = 1
    /\ Cardinality({i \in DOMAIN sec.typeButtons : sec.typeButtons[i].active}) = 1
    /\ \A i \in DOMAIN sec.periodButtons :
          /\ sec.periodButtons[i].active <=> sec.periodButtons[i].label = sec.period
          /\ sec.periodButtons[i].onclick =
                [period |-> sec.periodButtons[i].label, chartType |-> sec.chartType]
    /\ \A i \in DOMAIN sec.typeButtons :
          /\ sec.typeButtons[i].active <=> sec.typeButtons[i].key = sec.chartType
          /\ sec.typeButtons[i].onclick =
                [period |-> sec.period, chartType |-> sec.typeButtons[i].key]

\* The charts drawn in the section are those of its period and chart type:
\* as many points as the window, percentages exactly for 'percent'.
DrawnAs(sec, market) ==
    \A i \in DOMAIN sec.cards :
        (sec.cards[i].card.kind = "card" /\ sec.cards[i].card.chart.kind = "chart") =>
            /\ sec.cards[i].card.chart.isPercentage <=> sec.chartType = "percent"
            /\ Len(sec.cards[i].card.chart.data) =
                  WindowLength(Len(Field(market, sec.cards[i].symbol).elems), sec.period)

\* The selection of a section: the period and the chart type it shows.
Selection(sec) == [period |-> sec.period, chartType |-> sec.chartType]

\* A step that gives the section a selection gives it ALL and price when it
\* had none, and otherwise the one a button of the section asked for.
SelectionStep(before, after) ==
    after.kind = "section" =>
        IF before.kind # "section"
        THEN Selection(after) = [period |-> "ALL", chartType |-> "price"]
        ELSE \/ Selection(after) = Selection(before)
             \/ \E i \in DOMAIN before.periodButtons :
                   Selection(after) = before.periodButtons[i].onclick
             \/ \E i \in DOMAIN before.typeButtons :
                   Selection(after) = before.typeButtons[i].onclick

RenderedAgain(sec) ==
    [sec EXCEPT !.cards = [i \in DOMAIN sec.cards |->
                              IF sec.cards[i].card.kind = "card"
                              THEN [sec.cards[i] EXCEPT !.card.chart = NoChart]
                              ELSE sec.cards[i]]]

\* The callback was queued by a render of the period and the chart type
\* that its section shows in d.
QueuedFor(timer, d, market) ==
    /\ d[timer.container].kind = "section"
    /\ timer.isPercentage <=> d[timer.container].chartType = "percent"
    /\ Len(timer.data) =
          WindowLength(Len(Field(market, timer.symbol).elems),
                       d[timer.container].period)

C26_ThemeRoundTrip ==
    /\ [](page = DashPage /\ tasks # << >> /\ "theme" \in DOMAIN storage =>
            /\ darkMode <=> storage["theme"] = "dark"
            /\ dom["theme-icon"] = ThemeIcon(darkMode))
    /\ [][page = DashPage /\ tasks = << >> /\ tasks' # << >> =>
            storage' = storage]_vars

\* A page loaded with 'dark' stored: it is dark, shows the sun, and waits
\* for its market data with nothing rendered yet.
C26_Witness ==
    /\ page = DashPage
    /\ "theme" \in DOMAIN storage /\ storage["theme"] = "dark"
    /\ darkMode
    /\ dom["theme-icon"] = ThemeIcon(TRUE)
    /\ Len(tasks) = 1 /\ tasks[1].pc = "awaitFetch"
    /\ fullMarketData = EmptyObject
    /\ dom["market-breadth-container"] = Placeholder

\* initDashboard passes from its await to its end in this step.
InitResumes ==
    \E i \in 1..Len(tasks) :
        /\ tasks[i].fn = InitDashboard
        /\ tasks[i].pc \in {"awaitFetch", "awaitJson"}
        /\ Len(tasks') >= i
        /\ tasks'[i].pc \in {"done", "threw"}
        /\ tasks'[i].net.kind = "response"
        /\ tasks'[i].net.status \in 200..299
        /\ tasks'[i].net.body.valid
        /\ fullMarketData' = tasks'[i].net.body.json

\* C27: within a page load fullMarketData changes at most once, when
\* initDashboard resumes from a startup fetch that returned a non-empty
\* object, and then from the empty object to that object; no render, theme
\* toggle or chart callback changes it; and when the startup fetch fails it
\* is still the empty object once initDashboard has ended, with both
\* sections showing their unavailable message.
C27_CacheSetOnceAtStartup ==
    /\ [][(page = DashPage /\ fullMarketData' # fullMarketData /\ tasks' # << >>) =>
             /\ fullMarketData = EmptyObject
             /\ NonEmptyObject(fullMarketData')
             /\ InitResumes]_vars
    /\ [](page = DashPage =>
            \A i \in 1..Len(tasks) :
                (/\ tasks[i].fn = InitDashboard
                 /\ tasks[i].pc \in {"done", "threw"}
                 /\ FetchFailed(tasks[i].net)) =>
                    /\ fullMarketData = EmptyObject
                    /\ dom["market-breadth-container"] = BreadthUnavailable
                    /\ dom["global-markets-container"] = GlobalUnavailable)

\* The startup fetch was rejected and the theme has been toggled since: the
\* cache is the empty object and both sections say that data is unavailable.
C27_Witness ==
    /\ page = DashPage
    /\ tasks # << >> /\ tasks[1].fn = InitDashboard /\ tasks[1].pc = "done"
    /\ tasks[1].net = NetReject
    /\ "theme" \in DOMAIN storage
    /\ fullMarketData = EmptyObject
    /\ dom["market-breadth-container"] = BreadthUnavailable
    /\ dom["global-markets-container"] = GlobalUnavailable

====
